---- MODULE Spec2Model ----
(***************************************************************************)
(* FitPilot backend: standing bookings, their materialization into         *)
(* reservations, session generation from weekly templates, and the         *)
(* subscription renewal transaction.                                       *)
(*                                                                         *)
(* The relational store is modelled table by table.  Every table is a      *)
(* sequence of rows; a row's id is its index.  Rows are never deleted.     *)
(* Dates are day numbers; times of day are dropped (a session's date is    *)
(* the date of its start_at).                                              *)
(***************************************************************************)
EXTENDS Integers, Sequences, FiniteSets, TLC

VARIABLES
  subs,          \* membership_subscriptions
  payments,      \* payments
  standing,      \* standing_bookings
  exceptions,    \* standing_booking_exceptions
  sessions,      \* class_sessions
  reservations,  \* reservations
  inflight,      \* create_reservation requests between their checks and their insert
  stats,         \* statistics returned by the last materialization call
  prevStats,     \* statistics of the identical call made immediately before it
  lastOp,        \* what the last request was and how it ended
  budget         \* number of further requests the model serves

vars == <<subs, payments, standing, exceptions, sessions, reservations,
          inflight, stats, prevStats, lastOp, budget>>

----------------------------------------------------------------------------
(* Bounds of the model *)

NumPersons == 2
NumSeats == 1
MaxDay == 9
MaxCapacity == 2
MaxStanding == 2
MaxExceptions == 2
MaxSubs == 3
MaxRequests == 5
MaxMembershipRequests == 4
MaxSessionRequests == 3
MaxRunRequests == 4
MaxAlignRequests == 2
MaxPreviewRequests == 4
MaxMaintenanceRequests == 3
MaxStatusRequests == 5
MaxLifecycleRequests == 5
Day0PyWeekday == 3

----------------------------------------------------------------------------
(* Static catalogue: people, seats, templates, plans *)

Persons == 1..NumPersons
NoSeat == 0
Seats == 1..NumSeats
Days == 0..MaxDay
NoTemplate == 0
NoSession == 0
NoId == 0

\* class_templates rows.  Templates 1 and 2 form one time-slot group (same
\* class type, venue, start time, instructor; different weekday); template 3
\* is inactive; templates 4 to 8 are classes of their own on the remaining
\* weekdays.  weekday: 0=Sunday .. 6=Saturday.
ClassTemplate ==
  << [weekday |-> 5, group |-> 1, venue |-> 1, is_active |-> TRUE,  default_capacity |-> 1],
     [weekday |-> 1, group |-> 1, venue |-> 1, is_active |-> TRUE,  default_capacity |-> 2],
     [weekday |-> 6, group |-> 2, venue |-> 1, is_active |-> FALSE, default_capacity |-> 1],
     [weekday |-> 0, group |-> 3, venue |-> 1, is_active |-> TRUE,  default_capacity |-> 1],
     [weekday |-> 2, group |-> 4, venue |-> 1, is_active |-> TRUE,  default_capacity |-> 1],
     [weekday |-> 3, group |-> 5, venue |-> 1, is_active |-> TRUE,  default_capacity |-> 1],
     [weekday |-> 4, group |-> 6, venue |-> 1, is_active |-> TRUE,  default_capacity |-> 1],
     [weekday |-> 6, group |-> 7, venue |-> 1, is_active |-> TRUE,  default_capacity |-> 1] >>

Templates == DOMAIN ClassTemplate

\* seats rows: every seat of Seats is an active seat of venue 1.
Seat == [s \in Seats |-> [venue |-> 1, is_active |-> TRUE]]

\* membership_plans rows.
MembershipPlan ==
  << [duration_unit |-> "week", duration_value |-> 1, fixed_time_slot |-> TRUE],
     [duration_unit |-> "day",  duration_value |-> 3, fixed_time_slot |-> FALSE],
     [duration_unit |-> "month", duration_value |-> 1, fixed_time_slot |-> TRUE] >>

Plans == DOMAIN MembershipPlan

----------------------------------------------------------------------------
(* Helpers *)

Min(a, b) == IF a <= b THEN a ELSE b
Max(a, b) == IF a >= b THEN a ELSE b

Ids(table) == DOMAIN table

RECURSIVE SeqOfSet(_)
SeqOfSet(S) ==
  IF S = {} THEN <<>>
  ELSE LET m == CHOOSE x \in S : \A y \in S : x <= y
       IN <<m>> \o SeqOfSet(S \ {m})

\* datetime.date.weekday(): Monday=0 .. Sunday=6.
PyWeekday(d) == (Day0PyWeekday + d) % 7

\* datetime.date.isoweekday(): Monday=1 .. Sunday=7.
IsoWeekday(d) == PyWeekday(d) + 1

----------------------------------------------------------------------------
(* The store.  A transaction works on a record of all tables (tx), and its  *)
(* commit makes that record the stored state.  tx.broken says that a flush  *)
(* of the transaction hit a constraint violation: every later statement of  *)
(* the transaction raises and its commit fails.                             *)

DB == [subs |-> subs, pays |-> payments, sbs |-> standing, excs |-> exceptions,
       sess |-> sessions, res |-> reservations, broken |-> FALSE]

\* Reservation statuses that occupy a seat or a spot.
ActiveStatuses == {"reserved", "checked_in"}

\* UniqueConstraint("session_id", "person_id", name="uq_session_person")
NoUqSessionPerson(rows, row) == TRUE
UqSessionPerson(rows, row) ==
  \A i \in DOMAIN rows :
    ~(rows[i].session = row.session /\ rows[i].person = row.person)

\* Index("uq_reservations_seat_once", "session_id", "seat_id", unique=True,
\*       postgresql_where="seat_id IS NOT NULL AND status IN ('reserved','checked_in')")
NoUqReservationsSeatOnce(rows, row) == TRUE
UqReservationsSeatOnce(rows, row) ==
  (row.seat # NoSeat /\ row.status \in {"reserved", "checked_in"}) =>
    \A i \in DOMAIN rows :
      ~(rows[i].session = row.session /\ rows[i].seat = row.seat
        /\ rows[i].status \in {"reserved", "checked_in"})

\* db.add(reservation) followed by the flush that sends the INSERT.
AddReservation(tx, row) ==
  IF UqSessionPerson(tx.res, row) /\ UqReservationsSeatOnce(tx.res, row)
  THEN [tx EXCEPT !.res = Append(@, row)]
  ELSE [tx EXCEPT !.broken = TRUE]

\* COUNT of the session's reservations with status reserved or checked_in.
ActiveCount(res, sid) ==
  Cardinality({i \in DOMAIN res : res[i].session = sid /\ res[i].status \in ActiveStatuses})

NoSeatTaken(res, sid, seat) == FALSE
SeatTaken(res, sid, seat) ==
  \E i \in DOMAIN res :
    res[i].session = sid /\ res[i].seat = seat /\ res[i].status \in ActiveStatuses

----------------------------------------------------------------------------
(* Materialization (standingBookingsCrud.py) *)

Stats0 == [processed |-> 0, created |-> 0, no_capacity |-> 0, seat_taken |-> 0,
           existing |-> 0, exceptions |-> 0, errors |-> 0]

\* SELECT of the reservation, of any status, of the person on the session.
NoExistingReservation(res, session_id, person_id) == FALSE
ExistingReservation(res, session_id, person_id) ==
  \E i \in DOMAIN res : res[i].session = session_id /\ res[i].person = person_id

\* m = [tx, stats].  The reservation attempt shared by every materialization path.
create_reservation_if_possible(m, sb, session_id, source) ==
  IF m.tx.broken THEN m
  ELSE IF ExistingReservation(m.tx.res, session_id, sb.person)
  THEN [m EXCEPT !.stats.existing = @ + 1]
  ELSE IF session_id \notin DOMAIN m.tx.sess THEN m
  ELSE IF sb.seat # NoSeat /\ SeatTaken(m.tx.res, session_id, sb.seat)
  THEN [m EXCEPT !.stats.seat_taken = @ + 1]
  ELSE IF sb.seat = NoSeat
          /\ ActiveCount(m.tx.res, session_id) >= m.tx.sess[session_id].capacity
  THEN [m EXCEPT !.stats.no_capacity = @ + 1]
  ELSE [tx |-> AddReservation(m.tx, [session |-> session_id, person |-> sb.person,
                                     seat |-> sb.seat, status |-> "reserved",
                                     source |-> source, checked_out |-> FALSE]),
        stats |-> [m.stats EXCEPT !.created = @ + 1]]

\* The exception of standing booking sbId dated d, or NoId.
ExceptionOn(excs, sbId, d) ==
  IF \E e \in DOMAIN excs : excs[e].sb = sbId /\ excs[e].date = d
  THEN CHOOSE e \in DOMAIN excs : excs[e].sb = sbId /\ excs[e].date = d
  ELSE NoId

\* The scheduled sessions of a template dated within [lo, hi], ORDER BY start_at.
RECURSIVE OrderByStartAt(_, _)
OrderByStartAt(sess, S) ==
  IF S = {} THEN <<>>
  ELSE LET m == CHOOSE i \in S : \A j \in S :
                  sess[i].date < sess[j].date \/ (sess[i].date = sess[j].date /\ i <= j)
       IN <<m>> \o OrderByStartAt(sess, S \ {m})

SessionsInRange(sess, template, lo, hi) ==
  OrderByStartAt(sess, {i \in DOMAIN sess :
      /\ sess[i].template = template
      /\ sess[i].date >= lo /\ sess[i].date <= hi
      /\ sess[i].status = "scheduled"})

\* The loop over the sessions of one standing booking.
RECURSIVE materialize_sessions(_, _, _, _)
materialize_sessions(m, sbId, sb, todo) ==
  IF todo = <<>> THEN m
  ELSE LET sid == Head(todo)
           e == ExceptionOn(m.tx.excs, sbId, m.tx.sess[sid].date)
           m1 == IF e # NoId
                 THEN LET skipped == [m EXCEPT !.stats.exceptions = @ + 1]
                      IN IF m.tx.excs[e].action = "reschedule"
                            /\ m.tx.excs[e].new_session # NoSession
                         THEN create_reservation_if_possible(
                                skipped, sb, m.tx.excs[e].new_session, "override")
                         ELSE skipped
                 ELSE create_reservation_if_possible(m, sb, sid, "standing")
       IN materialize_sessions(m1, sbId, sb, Tail(todo))

materialize_single_standing_booking(m, sbId, start_date, end_date) ==
  LET sb == m.tx.sbs[sbId]
  IN IF sb.template \notin Templates \/ ~ClassTemplate[sb.template].is_active THEN m
     ELSE materialize_sessions(m, sbId, sb,
            SessionsInRange(m.tx.sess, sb.template,
                            Max(start_date, sb.start), Min(end_date, sb.end)))

AllStandingBookings(sbs, start_date, end_date, subscription_id, template_id) ==
  DOMAIN sbs

\* The standing bookings a windowed run selects.
SelectedStandingBookings(sbs, start_date, end_date, subscription_id, template_id) ==
  {i \in DOMAIN sbs :
     /\ sbs[i].status = "active"
     /\ sbs[i].start <= end_date
     /\ sbs[i].end >= start_date
     /\ (subscription_id # NoId => sbs[i].sub = subscription_id)
     /\ (template_id # NoTemplate => sbs[i].template = template_id)}

\* The loop over the selected standing bookings, in the order the query returned
\* them; an exception raised for one booking is recorded and the loop goes on.
RECURSIVE materialize_bookings(_, _, _, _)
materialize_bookings(m, order, start_date, end_date) ==
  IF order = <<>> THEN m
  ELSE LET counted == [m EXCEPT !.stats.processed = @ + 1]
           done == IF counted.tx.broken
                   THEN [counted EXCEPT !.stats.errors = @ + 1]
                   ELSE materialize_single_standing_booking(
                          counted, Head(order), start_date, end_date)
       IN materialize_bookings(done, Tail(order), start_date, end_date)

materialize_standing_bookings(tx, window_weeks, start_date, subscription_id, template_id, order) ==
  materialize_bookings([tx |-> tx, stats |-> Stats0], order,
                       start_date, start_date + 7 * window_weeks)

\* Real-time materialization of one session.
RECURSIVE materialize_session_bookings(_, _, _)
materialize_session_bookings(m, order, session_id) ==
  IF order = <<>> THEN m
  ELSE LET counted == [m EXCEPT !.stats.processed = @ + 1]
           done == IF counted.tx.broken
                   THEN [counted EXCEPT !.stats.errors = @ + 1]
                   ELSE create_reservation_if_possible(
                          counted, counted.tx.sbs[Head(order)], session_id, "standing")
       IN materialize_session_bookings(done, Tail(order), session_id)

TemplateStandingBookings(tx, session_id) ==
  {i \in DOMAIN tx.sbs : tx.sbs[i].template = tx.sess[session_id].template}

SessionStandingBookings(tx, session_id) ==
  {i \in DOMAIN tx.sbs :
     /\ tx.sbs[i].template = tx.sess[session_id].template
     /\ tx.sbs[i].status = "active"
     /\ tx.sbs[i].start <= tx.sess[session_id].date
     /\ tx.sbs[i].end >= tx.sess[session_id].date}

materialize_standing_bookings_for_session(tx, session_id, order) ==
  IF \/ session_id \notin DOMAIN tx.sess
     \/ tx.sess[session_id].template = NoTemplate
     \/ tx.sess[session_id].status # "scheduled"
     \/ ~ClassTemplate[tx.sess[session_id].template].is_active
  THEN [tx |-> tx, stats |-> Stats0]
  ELSE materialize_session_bookings([tx |-> tx, stats |-> Stats0], order, session_id)

\* All orders in which a query without ORDER BY may return the rows S.
Orders(S) ==
  {f \in [1..Cardinality(S) -> S] : \A i, j \in 1..Cardinality(S) : f[i] = f[j] => i = j}

----------------------------------------------------------------------------
(* Commit and rollback *)

Commit(tx) ==
  /\ subs' = tx.subs
  /\ payments' = tx.pays
  /\ standing' = tx.sbs
  /\ exceptions' = tx.excs
  /\ sessions' = tx.sess
  /\ reservations' = tx.res

Rollback == UNCHANGED <<subs, payments, standing, exceptions, sessions, reservations>>

\* db.commit() of the request's transaction: a broken transaction cannot commit
\* and the handler rolls it back.
CommitOrRollback(tx) == IF tx.broken THEN Rollback ELSE Commit(tx)

NoStats == [processed |-> 0, created |-> 0, no_capacity |-> 0, seat_taken |-> 0,
            existing |-> 0, exceptions |-> 0, errors |-> 0, valid |-> FALSE,
            clean |-> FALSE]

Returned(st, clean) ==
  [processed |-> st.processed, created |-> st.created, no_capacity |-> st.no_capacity,
   seat_taken |-> st.seat_taken, existing |-> st.existing, exceptions |-> st.exceptions,
   errors |-> st.errors, valid |-> TRUE, clean |-> clean]

Op(name, args, ok) == [op |-> name, args |-> args, ok |-> ok]

\* Every request takes one unit of the budget.
Served ==
  /\ budget > 0
  /\ budget' = budget - 1

Done(name, args, ok) ==
  /\ lastOp' = Op(name, args, ok)
  /\ stats' = NoStats
  /\ prevStats' = NoStats

----------------------------------------------------------------------------
(* Reservations (reservationsCrud.py, graphql/reservations/mutations.py) *)

\* The checks of create_reservation, in order; "ok" when all pass.
create_reservation_checks(tx, session_id, person_id, seat_id) ==
  IF session_id \notin DOMAIN tx.sess THEN "Session not found"
  ELSE IF tx.sess[session_id].status # "scheduled" THEN "Cannot reserve session"
  ELSE IF person_id \notin Persons THEN "Person not found"
  ELSE IF seat_id # NoSeat /\ (seat_id \notin Seats \/ ~Seat[seat_id].is_active)
  THEN "Seat not found or inactive"
  ELSE IF seat_id # NoSeat /\ SeatTaken(tx.res, session_id, seat_id)
  THEN "Seat is already reserved for this session"
  ELSE IF \E i \in DOMAIN tx.res :
            /\ tx.res[i].session = session_id
            /\ tx.res[i].person = person_id
            /\ tx.res[i].status \in ActiveStatuses
  THEN "Person already has an active reservation for this session"
  ELSE IF ActiveCount(tx.res, session_id) >= tx.sess[session_id].capacity
  THEN "Session is at full capacity"
  ELSE "ok"

create_reservation(tx, session_id, person_id, seat_id) ==
  IF create_reservation_checks(tx, session_id, person_id, seat_id) # "ok" THEN tx
  ELSE AddReservation(tx, [session |-> session_id, person |-> person_id, seat |-> seat_id,
                           status |-> "reserved", source |-> "manual", checked_out |-> FALSE])

\* The createReservation mutation, run alone.
CreateReservation(session_id, person_id, seat_id) ==
  /\ Served
  /\ LET tx == create_reservation(DB, session_id, person_id, seat_id)
     IN /\ CommitOrRollback(tx)
        /\ Done("create_reservation", <<session_id, person_id, seat_id>>,
                ~tx.broken /\ tx.res # reservations)
        /\ UNCHANGED inflight

\* The same mutation run concurrently with other requests: its checks read the
\* store at one moment, its INSERT reaches the store at a later one.
BeginCreateReservation(session_id, person_id, seat_id) ==
  /\ Served
  /\ inflight = {}
  /\ create_reservation_checks(DB, session_id, person_id, seat_id) = "ok"
  /\ inflight' = {[session |-> session_id, person |-> person_id, seat |-> seat_id]}
  /\ Rollback
  /\ Done("begin_create_reservation", <<>>, TRUE)

FinishCreateReservation ==
  /\ Served
  /\ \E rq \in inflight :
       LET tx == AddReservation(DB, [session |-> rq.session, person |-> rq.person,
                                     seat |-> rq.seat, status |-> "reserved",
                                     source |-> "manual", checked_out |-> FALSE])
       IN /\ CommitOrRollback(tx)
          /\ inflight' = {}
          /\ Done("create_reservation", <<rq.session, rq.person, rq.seat>>, ~tx.broken)

cancel_reservation(tx, reservation_id) ==
  IF reservation_id \notin DOMAIN tx.res THEN tx
  ELSE IF tx.res[reservation_id].status = "canceled" THEN tx
  ELSE IF tx.res[reservation_id].status \notin {"reserved", "waitlisted"} THEN tx
  ELSE [tx EXCEPT !.res[reservation_id].status = "canceled"]

CancelReservation(reservation_id) ==
  /\ Served
  /\ LET tx == cancel_reservation(DB, reservation_id)
     IN /\ reservation_id \in DOMAIN reservations
        /\ Commit(tx)
        /\ Done("cancel_reservation", <<>>,
                tx.res[reservation_id].status = "canceled")
        /\ UNCHANGED inflight

check_in_reservation(tx, reservation_id) ==
  IF reservation_id \notin DOMAIN tx.res THEN tx
  ELSE IF tx.res[reservation_id].status # "reserved" THEN tx
  ELSE [tx EXCEPT !.res[reservation_id].status = "checked_in"]

CheckInReservation(reservation_id) ==
  /\ Served
  /\ LET tx == check_in_reservation(DB, reservation_id)
     IN /\ reservation_id \in DOMAIN reservations
        /\ Commit(tx)
        /\ Done("check_in_reservation", <<>>, tx.res # reservations)
        /\ UNCHANGED inflight

\* checkout_at is set; the status stays checked_in.
checkout_reservation(tx, reservation_id) ==
  IF reservation_id \notin DOMAIN tx.res THEN tx
  ELSE IF tx.res[reservation_id].status # "checked_in" THEN tx
  ELSE [tx EXCEPT !.res[reservation_id].checked_out = TRUE]

CheckoutReservation(reservation_id) ==
  /\ Served
  /\ LET tx == checkout_reservation(DB, reservation_id)
     IN /\ reservation_id \in DOMAIN reservations
        /\ Commit(tx)
        /\ Done("checkout_reservation", <<>>,
                reservations[reservation_id].status = "checked_in")
        /\ UNCHANGED inflight

----------------------------------------------------------------------------
(* Standing booking registry (standingBookingsCrud.py) *)

no_standing_booking_checks(tx, person_id, subscription_id, template_id, seat_id) == "ok"

\* The checks of create_standing_booking, in order; "ok" when all pass.
create_standing_booking_checks(tx, person_id, subscription_id, template_id, seat_id) ==
  IF ~(/\ subscription_id \in DOMAIN tx.subs
       /\ tx.subs[subscription_id].person = person_id
       /\ tx.subs[subscription_id].status = "active")
  THEN "Active subscription not found for this person"
  ELSE IF template_id \notin Templates THEN "Class template not found"
  ELSE IF ~ClassTemplate[template_id].is_active THEN "Class template is not active"
  ELSE IF seat_id # NoSeat
          /\ ~(/\ seat_id \in Seats
               /\ Seat[seat_id].venue = ClassTemplate[template_id].venue
               /\ Seat[seat_id].is_active)
  THEN "Seat not found or not available for this venue"
  ELSE IF \E i \in DOMAIN tx.sbs :
            /\ tx.sbs[i].person = person_id
            /\ tx.sbs[i].template = template_id
            /\ tx.sbs[i].status = "active"
  THEN "Active standing booking already exists for this person and template"
  ELSE IF seat_id # NoSeat
          /\ \E i \in DOMAIN tx.sbs :
               /\ tx.sbs[i].template = template_id
               /\ tx.sbs[i].seat = seat_id
               /\ tx.sbs[i].status = "active"
               /\ tx.sbs[i].person # person_id
  THEN "Seat is already reserved by another person for this template"
  ELSE "ok"

\* Returns the transaction with the new row appended, or unchanged when a check
\* raised (Len(result.sbs) tells which).
create_standing_booking(tx, person_id, subscription_id, template_id, start_date, end_date, seat_id) ==
  IF create_standing_booking_checks(tx, person_id, subscription_id, template_id, seat_id) # "ok"
  THEN tx
  ELSE [tx EXCEPT !.sbs = Append(@, [person |-> person_id, sub |-> subscription_id,
                                     template |-> template_id, seat |-> seat_id,
                                     start |-> start_date, end |-> end_date,
                                     status |-> "active"])]

CreateStandingBooking(person_id, subscription_id, template_id, start_date, end_date, seat_id) ==
  /\ Served
  /\ LET tx == create_standing_booking(DB, person_id, subscription_id, template_id,
                                       start_date, end_date, seat_id)
     IN /\ Len(standing) < MaxStanding
        /\ Commit(tx)
        /\ Done("create_standing_booking", <<>>,
                tx.sbs # standing)
        /\ UNCHANGED inflight

update_standing_booking_status(tx, standing_booking_id, new_status) ==
  IF new_status \notin {"active", "paused", "canceled"} THEN tx
  ELSE IF standing_booking_id \notin DOMAIN tx.sbs THEN tx
  ELSE [tx EXCEPT !.sbs[standing_booking_id].status = new_status]

\* updateStandingBooking, cancelStandingBooking, pauseStandingBooking and
\* resumeStandingBooking all come down to this call.
UpdateStandingBookingStatus(standing_booking_id, new_status) ==
  /\ Served
  /\ LET tx == update_standing_booking_status(DB, standing_booking_id, new_status)
     IN /\ standing_booking_id \in DOMAIN standing
        /\ Commit(tx)
        /\ Done("update_standing_booking_status", <<>>, TRUE)
        /\ UNCHANGED inflight

create_standing_booking_exception(tx, standing_booking_id, session_date, action, new_session_id) ==
  IF action \notin {"skip", "reschedule"} THEN tx
  ELSE IF action = "reschedule" /\ new_session_id = NoSession THEN tx
  ELSE IF standing_booking_id \notin DOMAIN tx.sbs THEN tx
  ELSE IF new_session_id # NoSession /\ new_session_id \notin DOMAIN tx.sess THEN tx
  ELSE IF \E e \in DOMAIN tx.excs :
            tx.excs[e].sb = standing_booking_id /\ tx.excs[e].date = session_date
  THEN tx
  ELSE [tx EXCEPT !.excs = Append(@, [sb |-> standing_booking_id, date |-> session_date,
                                      action |-> action, new_session |-> new_session_id])]

CreateStandingBookingException(standing_booking_id, session_date, action, new_session_id) ==
  /\ Served
  /\ LET tx == create_standing_booking_exception(DB, standing_booking_id, session_date,
                                                 action, new_session_id)
     IN /\ Len(exceptions) < MaxExceptions
        /\ tx.excs # exceptions
        /\ Commit(tx)
        /\ Done("create_standing_booking_exception", <<>>, TRUE)
        /\ UNCHANGED inflight

----------------------------------------------------------------------------
(* Class sessions (classSessionCrud.py, graphql/class_sessions/mutations.py) *)

\* The per-session hook run for each of the listed new sessions, one after the
\* other, inside one transaction.  orders[k] is the order in which the query for
\* the k-th session returned its standing bookings.
RECURSIVE materialize_new_sessions(_, _, _)
materialize_new_sessions(tx, created, orders) ==
  IF created = <<>> THEN tx
  ELSE materialize_new_sessions(
         materialize_standing_bookings_for_session(tx, Head(created), Head(orders)).tx,
         Tail(created), Tail(orders))

\* All choices of one order per new session.
HookOrders(tx, created) ==
  {os \in [1..Len(created) -> UNION {Orders(SessionStandingBookings(tx, created[k])) :
                                       k \in 1..Len(created)}] :
     \A k \in 1..Len(created) : os[k] \in Orders(SessionStandingBookings(tx, created[k]))}

\* The dates of [start_date, end_date] that fall on the template's weekday
\* (template weekday: 0=Sunday .. 6=Saturday).
MatchingDatesUnconverted(template_id, start_date, end_date) ==
  {d \in start_date..end_date : PyWeekday(d) = ClassTemplate[template_id].weekday}
MatchingDates(template_id, start_date, end_date) ==
  {d \in start_date..end_date : PyWeekday(d) = (ClassTemplate[template_id].weekday - 1) % 7}

NoSessionsOn(sess, template_id, d) == {}
SessionsOn(sess, template_id, d) ==
  {i \in DOMAIN sess : sess[i].template = template_id /\ sess[i].date = d}

NewSessions(template_id, dates) ==
  [k \in 1..Len(dates) |->
     [template |-> template_id, date |-> dates[k],
      capacity |-> ClassTemplate[template_id].default_capacity, status |-> "scheduled"]]

\* Returns [tx, created, raised]: the transaction after the bulk insert and its
\* commit, the ids of the new sessions, and whether the existence check raised
\* MultipleResultsFound.
generate_sessions_from_template(tx, template_id, start_date, end_date) ==
  IF template_id \notin Templates \/ ~ClassTemplate[template_id].is_active
  THEN [tx |-> tx, created |-> <<>>, raised |-> FALSE]
  ELSE LET dates == MatchingDates(template_id, start_date, end_date)
       IN IF \E d \in dates : Cardinality(SessionsOn(tx.sess, template_id, d)) > 1
          THEN [tx |-> tx, created |-> <<>>, raised |-> TRUE]
          ELSE LET missing == SeqOfSet({d \in dates : SessionsOn(tx.sess, template_id, d) = {}})
               IN [tx |-> [tx EXCEPT !.sess = @ \o NewSessions(template_id, missing)],
                   created |-> [k \in 1..Len(missing) |-> Len(tx.sess) + k],
                   raised |-> FALSE]

\* The generateSessionsFromTemplate mutation: generation, then the hook for
\* every new session.
GenerateSessionsFromTemplate(template_id, start_date, end_date) ==
  /\ Served
  /\ LET g == generate_sessions_from_template(DB, template_id, start_date, end_date)
     IN /\ \E os \in HookOrders(g.tx, g.created) :
             LET hooked == materialize_new_sessions(g.tx, g.created, os)
             IN Commit(IF hooked.broken THEN g.tx ELSE hooked)
        /\ Done("generate_sessions_from_template",
                <<template_id, start_date, end_date, Len(g.created)>>, ~g.raised)
        /\ UNCHANGED inflight

\* The createClassSession mutation: insert and commit, then the hook.
CreateClassSession(template_id, session_date, capacity) ==
  /\ Served
  /\ LET tx == [DB EXCEPT !.sess = Append(@, [template |-> template_id, date |-> session_date,
                                              capacity |-> capacity, status |-> "scheduled"])]
         created == <<Len(tx.sess)>>
     IN /\ capacity > 0
        /\ \E os \in HookOrders(tx, created) :
             LET hooked == materialize_new_sessions(tx, created, os)
             IN Commit(IF hooked.broken THEN tx ELSE hooked)
        /\ Done("create_class_session", <<>>, TRUE)
        /\ UNCHANGED inflight

\* CheckConstraint("capacity > 0") rejects the update at commit.
update_session_capacity(tx, session_id, new_capacity) ==
  IF session_id \notin DOMAIN tx.sess THEN tx
  ELSE IF new_capacity <= 0 THEN [tx EXCEPT !.broken = TRUE]
  ELSE [tx EXCEPT !.sess[session_id].capacity = new_capacity]

UpdateSessionCapacity(session_id, new_capacity) ==
  /\ Served
  /\ LET tx == update_session_capacity(DB, session_id, new_capacity)
     IN /\ session_id \in DOMAIN sessions
        /\ sessions[session_id].capacity # new_capacity
        /\ CommitOrRollback(tx)
        /\ Done("update_session_capacity", <<>>, ~tx.broken)
        /\ UNCHANGED inflight

\* CheckConstraint("status IN ('scheduled','canceled','completed')") rejects
\* any other status at commit.
update_session_status(tx, session_id, new_status) ==
  IF session_id \notin DOMAIN tx.sess THEN tx
  ELSE IF new_status \notin {"scheduled", "canceled", "completed"}
  THEN [tx EXCEPT !.broken = TRUE]
  ELSE [tx EXCEPT !.sess[session_id].status = new_status]

UpdateSessionStatus(session_id, new_status) ==
  /\ Served
  /\ LET tx == update_session_status(DB, session_id, new_status)
     IN /\ session_id \in DOMAIN sessions
        /\ sessions[session_id].status # new_status
        /\ CommitOrRollback(tx)
        /\ Done("update_session_status", <<>>, ~tx.broken)
        /\ UNCHANGED inflight

\* update_session_status commits the new status; cancel_session then imports
\* cancel_reservations_for_session from reservationsCrud, which defines no such
\* function: the import raises after the commit and no reservation is touched.
cancel_session(tx, session_id, cancel_reservations) ==
  update_session_status(tx, session_id, "canceled")

CancelSession(session_id, cancel_reservations) ==
  /\ Served
  /\ LET tx == cancel_session(DB, session_id, cancel_reservations)
     IN /\ session_id \in DOMAIN sessions
        /\ CommitOrRollback(tx)
        /\ Done("cancel_session", <<session_id, cancel_reservations>>,
                ~tx.broken /\ ~cancel_reservations)
        /\ UNCHANGED inflight

----------------------------------------------------------------------------
(* The materializeStandingBookings mutation *)

\* No reservation row, of any status, of a selected booking's person on a
\* session dated within the window.
WindowClean(start_date, end_date, selected) ==
  \A r \in DOMAIN reservations :
    ~(/\ \E i \in selected : standing[i].person = reservations[r].person
      /\ sessions[reservations[r].session].date >= start_date
      /\ sessions[reservations[r].session].date <= end_date)

MaterializeStandingBookings(window_weeks, start_date) ==
  /\ Served
  /\ LET end_date == start_date + 7 * window_weeks
         selected == SelectedStandingBookings(standing, start_date, end_date, NoId, NoTemplate)
     IN \E order \in Orders(selected) :
          LET m == materialize_standing_bookings(DB, window_weeks, start_date,
                                                 NoId, NoTemplate, order)
              call == Op("materialize_standing_bookings", <<window_weeks, start_date>>, TRUE)
          IN /\ CommitOrRollback(m.tx)
             /\ stats' = Returned(m.stats, WindowClean(start_date, end_date, selected))
             /\ prevStats' = IF lastOp = call THEN stats ELSE NoStats
             /\ lastOp' = call
             /\ UNCHANGED inflight

----------------------------------------------------------------------------
(* The materializeStandingBookings mutation run concurrently with other       *)
(* requests.  A run is a record of inflight: the bookings still to process     *)
(* (order), the booking in hand (cur) and its sessions still to visit (todo),  *)
(* the rows it has sent to the database and not committed (added), the row it  *)
(* has added to its session and not flushed (pending), its statistics, the     *)
(* bookings it recorded an error for (errs) and whether its transaction is     *)
(* broken.  Each SELECT reads the committed store and the run's own rows; the  *)
(* INSERT of a pending row is sent by the autoflush of the run's next query.   *)

Runs == {r \in inflight : "order" \in DOMAIN r}

\* What the run's queries see.
RunView(run) == [DB EXCEPT !.res = reservations \o run.added, !.broken = run.broken]

\* The row would violate a unique constraint against rows.
Conflicts(rows, row) ==
  ~(UqSessionPerson(rows, row) /\ UqReservationsSeatOnce(rows, row))

\* The uncommitted rows of another run that make the INSERT of the pending row
\* wait for the end of that run's transaction.
Blockers(run) ==
  {o \in Runs \ {run} : run.pending # <<>> /\ Conflicts(o.added, run.pending[1])}

Blocked(run) == Blockers(run) # {}

\* Two runs wait for each other: the database aborts the statement of one.
Deadlocked(run) == \E o \in Blockers(run) : run \in Blockers(o)

\* The autoflush: the INSERT of the pending row, which fails on a committed
\* conflicting row, or as the victim of a deadlock.
Flush(run, deadlock) ==
  IF run.pending = <<>> THEN run
  ELSE IF run.broken THEN [run EXCEPT !.pending = <<>>]
  ELSE IF deadlock \/ Conflicts(reservations \o run.added, run.pending[1])
  THEN [run EXCEPT !.pending = <<>>, !.broken = TRUE]
  ELSE [run EXCEPT !.pending = <<>>, !.added = Append(@, run.pending[1])]

\* A step of the run may be taken: its flush does not wait, or it waits in a
\* deadlock that the database resolves against it.
MayStep(run, deadlock) ==
  IF deadlock THEN Deadlocked(run) ELSE ~Blocked(run)

\* The except branch of the loop for booking b.
RunError(run, b) ==
  [run EXCEPT !.stats.errors = @ + 1, !.errs = @ \cup {b}, !.cur = NoId, !.todo = <<>>]

\* The loop takes the next booking: its exceptions and sessions are read.
run_load(run, deadlock) ==
  LET f == Flush(run, deadlock)
      b == Head(f.order)
      counted == [f EXCEPT !.order = Tail(@), !.stats.processed = @ + 1]
      sb == standing[b]
  IN IF f.broken THEN RunError(counted, b)
     ELSE IF sb.template \notin Templates \/ ~ClassTemplate[sb.template].is_active
     THEN counted
     ELSE [counted EXCEPT !.cur = b,
                          !.todo = SessionsInRange(sessions, sb.template,
                                                   Max(f.start, sb.start), Min(f.end, sb.end))]

\* The loop over the sessions of the booking in hand visits the next session.
run_attempt(run, deadlock) ==
  LET f == Flush(run, deadlock)
      m == materialize_sessions([tx |-> RunView(f), stats |-> f.stats], f.cur,
                                standing[f.cur], <<Head(f.todo)>>)
      seen == Len(reservations) + Len(f.added)
  IN IF f.broken THEN RunError(f, f.cur)
     ELSE IF m.tx.broken THEN RunError([f EXCEPT !.broken = TRUE, !.stats = m.stats], f.cur)
     ELSE [f EXCEPT !.stats = m.stats,
                    !.pending = SubSeq(m.tx.res, seen + 1, Len(m.tx.res)),
                    !.todo = Tail(@),
                    !.cur = IF Tail(f.todo) = <<>> THEN NoId ELSE f.cur]

\* The mutation starts: the query for the standing bookings of the window.
BeginMaterialize(window_weeks, start_date) ==
  /\ Served
  /\ Cardinality(Runs) < 2
  /\ LET end_date == start_date + 7 * window_weeks
         selected == SelectedStandingBookings(standing, start_date, end_date, NoId, NoTemplate)
         id == IF \E o \in Runs : o.id = 1 THEN 2 ELSE 1
     IN \E order \in Orders(selected) :
          /\ inflight' = inflight \cup
               {[id |-> id, start |-> start_date, end |-> end_date, order |-> order,
                 selected |-> order, cur |-> NoId, todo |-> <<>>, added |-> <<>>,
                 pending |-> <<>>, stats |-> Stats0, errs |-> {}, broken |-> FALSE]}
  /\ Rollback
  /\ Done("begin_materialize_standing_bookings", <<>>, TRUE)

RunLoad(run, deadlock) ==
  /\ run \in Runs
  /\ run.todo = <<>> /\ run.order # <<>>
  /\ MayStep(run, deadlock)
  /\ inflight' = (inflight \ {run}) \cup {run_load(run, deadlock)}
  /\ Rollback
  /\ UNCHANGED <<stats, prevStats, lastOp, budget>>

RunAttempt(run, deadlock) ==
  /\ run \in Runs
  /\ run.todo # <<>>
  /\ MayStep(run, deadlock)
  /\ inflight' = (inflight \ {run}) \cup {run_attempt(run, deadlock)}
  /\ Rollback
  /\ UNCHANGED <<stats, prevStats, lastOp, budget>>

\* The loop is over: the mutation commits, or rolls back when the commit
\* raises.  The statistics are returned only by a run that committed.
RunEnd(run, deadlock) ==
  /\ run \in Runs
  /\ run.todo = <<>> /\ run.order = <<>>
  /\ MayStep(run, deadlock)
  /\ LET f == Flush(run, deadlock)
     IN /\ CommitOrRollback(RunView(f))
        /\ inflight' = inflight \ {run}
        /\ lastOp' = Op("materialize_standing_bookings_run",
                        <<f.id, f.selected, f.stats, f.errs>>, ~f.broken)
        /\ stats' = NoStats
        /\ prevStats' = NoStats
        /\ UNCHANGED budget

----------------------------------------------------------------------------
(* Memberships (membershipsCrud.py, graphql/memberships/mutations.py) *)

\* The days relativedelta(months=1) adds in the months of the calendar.
DaysInMonth == 30

\* The end date of a subscription of the plan that starts on start_at.
calculate_subscription_end(plan, start_at) ==
  IF plan.duration_unit = "week" THEN start_at + 7 * plan.duration_value
  ELSE IF plan.duration_unit = "month" THEN start_at + DaysInMonth * plan.duration_value
  ELSE start_at + plan.duration_value

align_date_unaligned(start_date, template_weekday) == start_date

\* The first date on or after start_date that falls on the template's weekday.
align_date_to_weekday(start_date, template_weekday) ==
  LET normalized ==
        IF template_weekday <= 0
        THEN (IF template_weekday = 0 THEN 7
              ELSE IF template_weekday % 7 = 0 THEN 7 ELSE template_weekday % 7)
        ELSE IF template_weekday > 7 THEN ((template_weekday - 1) % 7) + 1
        ELSE template_weekday
  IN start_date + ((normalized - IsoWeekday(start_date)) % 7)

window_end_is_subscription_end(plan, window_start, subscription_end) == subscription_end

\* The last date, inclusive, of the window in which standing bookings are
\* materialized for the plan (no plan of the catalogue has an override field).
calculate_window_end_for_plan(plan, window_start, subscription_end) ==
  IF plan.duration_unit = "day" /\ plan.duration_value > 0
  THEN Min(subscription_end, window_start + plan.duration_value - 1)
  ELSE IF plan.duration_unit = "week" /\ plan.duration_value > 0
  THEN Min(subscription_end, window_start + 7 * plan.duration_value - 1)
  ELSE subscription_end

create_membership_subscription(tx, person_id, plan_id, start_at) ==
  [tx EXCEPT !.subs = Append(@, [person |-> person_id, plan |-> plan_id, start |-> start_at,
                                 end |-> calculate_subscription_end(MembershipPlan[plan_id], start_at),
                                 status |-> "active"])]

create_payment(tx, person_id, subscription_id) ==
  [tx EXCEPT !.pays = Append(@, [person |-> person_id, sub |-> subscription_id])]

\* The member's active subscription with the latest end date, or NoId.
get_member_active_subscription(tx, member_id) ==
  LET active == {i \in DOMAIN tx.subs :
                   tx.subs[i].person = member_id /\ tx.subs[i].status = "active"}
  IN IF active = {} THEN NoId
     ELSE CHOOSE i \in active :
            \A j \in active :
              tx.subs[i].end > tx.subs[j].end \/ (tx.subs[i].end = tx.subs[j].end /\ i <= j)

\* The active templates of the time-slot group of template_id, ORDER BY weekday.
RECURSIVE OrderByWeekday(_)
OrderByWeekday(S) ==
  IF S = {} THEN <<>>
  ELSE LET t == CHOOSE x \in S : \A y \in S :
                  ClassTemplate[x].weekday < ClassTemplate[y].weekday
                  \/ (ClassTemplate[x].weekday = ClassTemplate[y].weekday /\ x <= y)
       IN <<t>> \o OrderByWeekday(S \ {t})

get_templates_in_same_group(template_id) ==
  IF template_id \notin Templates THEN <<>>
  ELSE OrderByWeekday({t \in Templates :
         ClassTemplate[t].group = ClassTemplate[template_id].group /\ ClassTemplate[t].is_active})

\* The loop of _create_standing_bookings_for_group.
\* g = [tx, ids, used, starts]: the created bookings, their templates and their
\* aligned start dates.
RECURSIVE create_group_bookings(_, _, _, _)
create_group_bookings(g, templates, subscription_id, seat_id) ==
  IF templates = <<>> THEN g
  ELSE LET t == Head(templates)
           sub == g.tx.subs[subscription_id]
           aligned_start == align_date_to_weekday(sub.start, ClassTemplate[t].weekday)
           tx2 == create_standing_booking(g.tx, sub.person, subscription_id, t,
                                          aligned_start, sub.end, seat_id)
           g2 == IF aligned_start > sub.end \/ Len(tx2.sbs) = Len(g.tx.sbs) THEN g
                 ELSE [tx |-> tx2, ids |-> Append(g.ids, Len(tx2.sbs)),
                       used |-> Append(g.used, t), starts |-> Append(g.starts, aligned_start)]
       IN create_group_bookings(g2, Tail(templates), subscription_id, seat_id)

create_standing_bookings_for_group(tx, subscription_id, template_id, seat_id) ==
  create_group_bookings([tx |-> tx, ids |-> <<>>, used |-> <<>>, starts |-> <<>>],
                        get_templates_in_same_group(template_id), subscription_id, seat_id)

\* The window of the fixed time-slot effects: [start, end, weeks].
EffectsWindow(g, subscription_id) ==
  LET sub == g.tx.subs[subscription_id]
      earliest == IF g.starts = <<>> THEN sub.start
                  ELSE CHOOSE d \in {g.starts[k] : k \in DOMAIN g.starts} :
                         \A k \in DOMAIN g.starts : d <= g.starts[k]
      window_start == Min(sub.start, earliest)
      window_end == calculate_window_end_for_plan(MembershipPlan[sub.plan], window_start, sub.end)
      coverage_days == Max(1, window_end - window_start + 1)
  IN [start |-> window_start, end |-> window_end,
      weeks |-> Max(1, (coverage_days + 6) \div 7)]

\* Session generation, template by template.  r = [tx, committed, created];
\* generate_sessions_from_template commits the transaction when it inserted a
\* session, and an exception it raises is swallowed.
RECURSIVE generate_sessions_for_templates(_, _, _, _)
generate_sessions_for_templates(r, used, starts, window_end) ==
  IF used = <<>> THEN r
  ELSE LET gen == generate_sessions_from_template(r.tx, Head(used), Head(starts), window_end)
           r2 == IF gen.raised \/ gen.created = <<>> THEN r
                 ELSE [tx |-> gen.tx, committed |-> gen.tx,
                       created |-> r.created + Len(gen.created)]
       IN generate_sessions_for_templates(r2, Tail(used), Tail(starts), window_end)

\* Whether _assert_materialization_success returns without raising.
assert_never_raises(st, standing_booking_ids, error) == TRUE
assert_some_reservation(st, standing_booking_ids, error) ==
  /\ standing_booking_ids # <<>>
  /\ \/ st.created + st.existing # 0
     \/ st.seat_taken = 0 /\ st.no_capacity = 0 /\ ~error /\ st.errors = 0
assert_materialization_success(st, standing_booking_ids, error) ==
  /\ standing_booking_ids # <<>>
  /\ st.seat_taken = 0
  /\ st.no_capacity = 0
  /\ ~error
  /\ st.errors = 0
  /\ st.created + st.existing # 0

\* The fixed time-slot effects: group bookings, then (when a booking was
\* created) session generation and the materialization of the subscription's
\* bookings.  committed is the store as of the transaction's last commit.  An
\* exception inside the materialization call is turned into an "error" entry of
\* its statistics.  Returns [tx, committed, stats, error, ids, sessions_created].
EffectsResult(g, gen, m) ==
  [tx |-> m.tx, committed |-> gen.committed, stats |-> m.stats, error |-> m.tx.broken,
   ids |-> g.ids, sessions_created |-> gen.created]

EffectsMaterialized(g, w, gen, subscription_id, order) ==
  EffectsResult(g, gen,
                materialize_standing_bookings(gen.tx, w.weeks, w.start,
                                              subscription_id, NoTemplate, order))

EffectsInWindow(g, w, committed, subscription_id, order) ==
  EffectsMaterialized(g, w,
                      generate_sessions_for_templates(
                        [tx |-> g.tx, committed |-> committed, created |-> 0],
                        g.used, g.starts, w.end),
                      subscription_id, order)

EffectsForGroup(g, committed, subscription_id, order) ==
  IF g.ids = <<>>
  THEN [tx |-> g.tx, committed |-> committed, stats |-> Stats0, error |-> FALSE,
        ids |-> g.ids, sessions_created |-> 0]
  ELSE EffectsInWindow(g, EffectsWindow(g, subscription_id), committed, subscription_id, order)

handle_fixed_timeslot_effects(tx, committed, subscription_id, template_id, seat_id, order) ==
  EffectsForGroup(create_standing_bookings_for_group(tx, subscription_id, template_id, seat_id),
                  committed, subscription_id, order)

\* The template and seat a renewal works with: those given, or, when no
\* template is given, those of the most recent standing booking of the member's
\* current subscription.
RenewalTarget(tx, member_id, template_id, seat_id) ==
  LET current == get_member_active_subscription(tx, member_id)
      previous == IF current = NoId THEN {}
                  ELSE {i \in DOMAIN tx.sbs : tx.sbs[i].sub = current}
      previous_sb == CHOOSE i \in previous : \A j \in previous : i >= j
  IN IF template_id = NoTemplate /\ previous # {}
     THEN [template |-> tx.sbs[previous_sb].template,
           seat |-> IF seat_id = NoSeat THEN tx.sbs[previous_sb].seat ELSE seat_id,
           preserved |-> TRUE]
     ELSE [template |-> template_id, seat |-> seat_id, preserved |-> FALSE]

\* The writes of a renewal up to its payment: the member's active subscriptions
\* are expired, the active standing bookings of those subscriptions are
\* canceled, the new subscription and its payment are added.
RenewalWrites(tx, member_id, plan_id, start_at) ==
  LET expired_subscription_ids ==
        {i \in DOMAIN tx.subs : tx.subs[i].person = member_id /\ tx.subs[i].status = "active"}
      tx1 == [tx EXCEPT
                !.subs = [i \in DOMAIN tx.subs |->
                            IF i \in expired_subscription_ids
                            THEN [tx.subs[i] EXCEPT !.status = "expired"] ELSE tx.subs[i]],
                !.sbs = [i \in DOMAIN tx.sbs |->
                           IF tx.sbs[i].sub \in expired_subscription_ids
                              /\ tx.sbs[i].status = "active"
                           THEN [tx.sbs[i] EXCEPT !.status = "canceled"] ELSE tx.sbs[i]]]
      tx2 == create_membership_subscription(tx1, member_id, plan_id, start_at)
  IN create_payment(tx2, member_id, Len(tx2.subs))

\* The renewal after its fixed time-slot effects e: the assertion.
RenewalAsserted(e) ==
  [tx |-> e.tx, committed |-> e.committed, fixed |-> TRUE,
   raised |-> ~assert_materialization_success(e.stats, e.ids, e.error),
   ids |-> e.ids, sessions_created |-> e.sessions_created,
   asserted |-> TRUE, stats |-> e.stats, error |-> e.error]

\* The renewal after its first writes (paid), for the template and seat of target.
RenewalEffects(tx, paid, target, needs_standing_booking, order) ==
  IF ~needs_standing_booking
  THEN [tx |-> paid, committed |-> tx, fixed |-> FALSE, raised |-> FALSE,
        ids |-> <<>>, sessions_created |-> 0,
        asserted |-> FALSE, stats |-> Stats0, error |-> FALSE]
  ELSE IF target.template = NoTemplate
  THEN [tx |-> paid, committed |-> tx, fixed |-> TRUE, raised |-> TRUE,
        ids |-> <<>>, sessions_created |-> 0,
        asserted |-> FALSE, stats |-> Stats0, error |-> FALSE]
  ELSE RenewalAsserted(handle_fixed_timeslot_effects(paid, tx, Len(paid.subs),
                                                     target.template, target.seat, order))

RenewalFor(tx, target, member_id, plan_id, template_id, start_at, order) ==
  RenewalEffects(tx, RenewalWrites(tx, member_id, plan_id, start_at), target,
                 MembershipPlan[plan_id].fixed_time_slot \/ template_id # NoTemplate
                   \/ target.preserved,
                 order)

\* Returns [tx, committed, fixed, raised, ids, sessions_created, asserted,
\* stats, error]: fixed says that the renewal needed standing bookings, asserted
\* that it reached _assert_materialization_success with the statistics stats.
\* start_at is always given by the caller.
renew_subscription_with_standing_booking(tx, member_id, plan_id, template_id, seat_id, start_at, order) ==
  RenewalFor(tx, RenewalTarget(tx, member_id, template_id, seat_id),
             member_id, plan_id, template_id, start_at, order)

\* The standing bookings the materialization query of the effects returns for
\* the newest subscription of tx.
EffectsSelection(tx, template_id, seat_id) ==
  LET g == create_standing_bookings_for_group(tx, Len(tx.subs), template_id, seat_id)
      w == EffectsWindow(g, Len(tx.subs))
  IN SelectedStandingBookings(g.tx.sbs, w.start, w.start + 7 * w.weeks,
                              Len(tx.subs), NoTemplate)

SelectionFor(tx, target) == EffectsSelection(tx, target.template, target.seat)

RenewalSelection(tx, member_id, plan_id, template_id, seat_id, start_at) ==
  SelectionFor(RenewalWrites(tx, member_id, plan_id, start_at),
               RenewalTarget(tx, member_id, template_id, seat_id))

\* The end of a request whose transaction r may have committed midway: the
\* final commit, or the rollback to the last commit.
Settle(r, name, args, ok) ==
  /\ Len(subs) < MaxSubs
  /\ Commit(IF ok THEN r.tx ELSE r.committed)
  /\ Done(name, args, ok)
  /\ UNCHANGED inflight

\* request = <<plan_id, template_id, seat_id, start_at>>, the mutation's input.
RenewalSettled(r, member_id, request) ==
  Settle(r, "renew_subscription",
         <<member_id, r.fixed, Len(r.ids), r.sessions_created, r.asserted, r.stats, r.error,
           request>>,
         ~(r.raised \/ r.tx.broken))

\* The renewSubscription mutation: the renewal commits, or the mutation rolls
\* the transaction back to its last commit.
RenewSubscription(member_id, plan_id, template_id, seat_id, start_at) ==
  /\ Served
  /\ \E order \in Orders(RenewalSelection(DB, member_id, plan_id, template_id, seat_id, start_at)) :
       RenewalSettled(renew_subscription_with_standing_booking(
                        DB, member_id, plan_id, template_id, seat_id, start_at, order),
                      member_id, <<plan_id, template_id, seat_id, start_at>>)

\* Enrollment of a new member: payment and subscription, then the fixed
\* time-slot effects when a template is given, then the commit.
\* Returns [tx, committed].
EnrollmentEffects(tx, paid, template_id, seat_id, order) ==
  IF template_id = NoTemplate THEN [tx |-> paid, committed |-> tx]
  ELSE handle_fixed_timeslot_effects(paid, tx, Len(paid.subs), template_id, seat_id, order)

create_member_enrollment_with_standing_booking(tx, person_id, plan_id, template_id, seat_id, start_at, order) ==
  EnrollmentEffects(tx,
                    create_payment(create_membership_subscription(tx, person_id, plan_id, start_at),
                                   person_id, Len(tx.subs) + 1),
                    template_id, seat_id, order)

\* A person no table has a row of.
NewPerson(p) ==
  /\ \A i \in DOMAIN subs : subs[i].person # p
  /\ \A i \in DOMAIN standing : standing[i].person # p
  /\ \A i \in DOMAIN reservations : reservations[i].person # p

EnrollmentSelection(tx, person_id, plan_id, template_id, seat_id, start_at) ==
  EffectsSelection(create_payment(create_membership_subscription(tx, person_id, plan_id, start_at),
                                  person_id, Len(tx.subs) + 1),
                   template_id, seat_id)

\* request = <<person_id, plan_id, template_id, seat_id, start_at>>, the
\* mutation's input.
EnrollmentSettled(r, request) == Settle(r, "create_member_enrollment", request, ~r.tx.broken)

\* The createMemberEnrollment mutation.
CreateMemberEnrollment(person_id, plan_id, template_id, seat_id, start_at) ==
  /\ Served
  /\ \E order \in Orders(EnrollmentSelection(DB, person_id, plan_id, template_id, seat_id, start_at)) :
       /\ NewPerson(person_id)
       /\ EnrollmentSettled(create_member_enrollment_with_standing_booking(
                              DB, person_id, plan_id, template_id, seat_id, start_at, order),
                            <<person_id, plan_id, template_id, seat_id, start_at>>)

\* The createSubscription mutation.
CreateSubscription(person_id, plan_id, start_at) ==
  /\ Served
  /\ Len(subs) < MaxSubs
  /\ Commit(create_membership_subscription(DB, person_id, plan_id, start_at))
  /\ Done("create_subscription", <<>>, TRUE)
  /\ UNCHANGED inflight

----------------------------------------------------------------------------
(* Specification of the materialization engine: requests run one at a time.  *)
(* Every person starts with one active subscription.                         *)

InitialSubscriptions ==
  [p \in Persons |-> [person |-> p, plan |-> 1, start |-> 0, end |-> MaxDay,
                      status |-> "active"]]

Init ==
  /\ subs = InitialSubscriptions
  /\ payments = <<>>
  /\ standing = <<>>
  /\ exceptions = <<>>
  /\ sessions = <<>>
  /\ reservations = <<>>
  /\ inflight = {}
  /\ stats = NoStats
  /\ prevStats = NoStats
  /\ lastOp = Op("init", <<>>, TRUE)
  /\ budget = MaxRequests

Next ==
  \/ \E t \in {1, 3} : GenerateSessionsFromTemplate(t, 0, MaxDay)
  \/ \E i \in DOMAIN sessions, c \in 1..MaxCapacity : UpdateSessionCapacity(i, c)
  \/ \E p \in Persons, seat \in {NoSeat} \cup Seats :
       CreateStandingBooking(p, p, 1, 0, MaxDay, seat)
  \/ \E i \in DOMAIN standing, n, d \in DOMAIN sessions :
       \/ CreateStandingBookingException(i, sessions[d].date, "skip", NoSession)
       \/ CreateStandingBookingException(i, sessions[d].date, "reschedule", n)
  \/ \E w \in 1..2 : MaterializeStandingBookings(w, 0)
  \/ \E i \in DOMAIN sessions, p \in Persons, seat \in {NoSeat} \cup Seats :
       CreateReservation(i, p, seat)
  \/ \E r \in DOMAIN reservations : CancelReservation(r)
  \/ \E c \in 1..MaxCapacity : CreateClassSession(1, 1, c)

Spec == Init /\ [][Next]_vars

----------------------------------------------------------------------------
(* Specification of reservations under interleaving: a createReservation     *)
(* request may have run its checks and not yet its insert while other        *)
(* requests are served.                                                      *)

NextConcurrent ==
  \/ GenerateSessionsFromTemplate(2, 0, MaxDay)
  \/ \E p \in Persons, seat \in {NoSeat} \cup Seats :
       CreateStandingBooking(p, p, 2, 0, MaxDay, seat)
  \/ \E i \in DOMAIN standing, n, d \in DOMAIN sessions :
       CreateStandingBookingException(i, sessions[d].date, "reschedule", n)
  \/ MaterializeStandingBookings(1, 0)
  \/ \E i \in DOMAIN sessions, p \in Persons, seat \in {NoSeat} \cup Seats :
       BeginCreateReservation(i, p, seat)
  \/ FinishCreateReservation
  \/ \E r \in DOMAIN reservations : CancelReservation(r)
  \/ \E r \in DOMAIN reservations : CheckInReservation(r)

SpecConcurrent == Init /\ [][NextConcurrent]_vars

----------------------------------------------------------------------------
(* Specification of memberships: subscriptions, enrollments, renewals and    *)
(* the standing booking registry, starting from an empty store.              *)

InitMembership ==
  /\ subs = <<>>
  /\ payments = <<>>
  /\ standing = <<>>
  /\ exceptions = <<>>
  /\ sessions = <<>>
  /\ reservations = <<>>
  /\ inflight = {}
  /\ stats = NoStats
  /\ prevStats = NoStats
  /\ lastOp = Op("init", <<>>, TRUE)
  /\ budget = MaxMembershipRequests

NextMembership ==
  \/ \E p \in Persons : CreateSubscription(p, 1, 0)
  \/ \E p \in Persons, t \in {1}, seat \in {NoSeat} \cup Seats :
       CreateMemberEnrollment(p, 1, t, seat, 0)
  \/ \E p \in Persons, plan \in 1..2, t \in {NoTemplate, 1, 3}, seat \in {NoSeat} \cup Seats :
       RenewSubscription(p, plan, t, seat, 0)
  \/ \E i \in DOMAIN subs, seat \in {NoSeat} \cup Seats :
       CreateStandingBooking(subs[i].person, i, 1, subs[i].start, subs[i].end, seat)
  \/ \E i \in DOMAIN standing, st \in {"active", "paused", "canceled"} :
       UpdateStandingBookingStatus(i, st)
  \/ GenerateSessionsFromTemplate(1, 0, MaxDay)

SpecMembership == InitMembership /\ [][NextMembership]_vars

----------------------------------------------------------------------------
(* Specification of the standing booking registry: creation requests with    *)
(* valid and invalid subscriptions, templates and seats, status changes, and  *)
(* renewals that expire subscriptions.                                        *)

\* A seat id no seats row has.
UnknownSeat == NumSeats + 1

NextRegistry ==
  \/ \E p \in Persons, sub \in 1..MaxSubs, t \in {NoTemplate, 1, 2, 3},
        seat \in {NoSeat, UnknownSeat} \cup Seats :
       CreateStandingBooking(p, sub, t, 0, MaxDay, seat)
  \/ \E i \in DOMAIN standing, st \in {"active", "paused", "canceled"} :
       UpdateStandingBookingStatus(i, st)
  \/ \E p \in Persons : RenewSubscription(p, 2, NoTemplate, NoSeat, 0)

SpecRegistry == Init /\ [][NextRegistry]_vars

----------------------------------------------------------------------------
(* Specification of windowed runs: standing bookings of differing validity    *)
(* ranges and statuses, windows starting on differing days.                   *)

NextWindow ==
  \/ \E t \in {1, 2} : GenerateSessionsFromTemplate(t, 0, MaxDay)
  \/ \E p \in Persons, t \in {1, 2}, s \in {0, 2}, e \in {5, MaxDay} :
       CreateStandingBooking(p, p, t, s, e, NoSeat)
  \/ \E i \in DOMAIN standing, st \in {"active", "paused", "canceled"} :
       UpdateStandingBookingStatus(i, st)
  \/ \E i \in DOMAIN standing, n, d \in DOMAIN sessions :
       CreateStandingBookingException(i, sessions[d].date, "reschedule", n)
  \/ \E start \in {0, 2} : MaterializeStandingBookings(1, start)

SpecWindow == Init /\ [][NextWindow]_vars

----------------------------------------------------------------------------
(* Specification of concurrent windowed runs.  The sessions of templates 1    *)
(* and 2 over the calendar have been generated.                               *)

GeneratedSessions ==
  NewSessions(1, SeqOfSet(MatchingDates(1, 0, MaxDay)))
    \o NewSessions(2, SeqOfSet(MatchingDates(2, 0, MaxDay)))

InitRuns ==
  /\ subs = InitialSubscriptions
  /\ payments = <<>>
  /\ standing = <<>>
  /\ exceptions = <<>>
  /\ sessions = GeneratedSessions
  /\ reservations = <<>>
  /\ inflight = {}
  /\ stats = NoStats
  /\ prevStats = NoStats
  /\ lastOp = Op("init", <<>>, TRUE)
  /\ budget = MaxRunRequests

NextRuns ==
  \/ \E p \in Persons, t \in {1, 2}, seat \in {NoSeat} \cup Seats :
       CreateStandingBooking(p, p, t, 0, MaxDay, seat)
  \/ BeginMaterialize(2, 0)
  \/ \E run \in Runs, deadlock \in BOOLEAN :
       \/ RunLoad(run, deadlock)
       \/ RunAttempt(run, deadlock)
       \/ RunEnd(run, deadlock)

SpecRuns == InitRuns /\ [][NextRuns]_vars

----------------------------------------------------------------------------
(* Specification of real-time materialization: sessions created by hand, with *)
(* and without a template, sessions that leave the scheduled status, bookings *)
(* with exceptions.                                                           *)

NextRealtime ==
  \/ \E p \in Persons, s \in {0, 2}, seat \in {NoSeat} \cup Seats :
       CreateStandingBooking(p, p, 1, s, MaxDay, seat)
  \/ \E i \in DOMAIN standing : CreateStandingBookingException(i, 1, "skip", NoSession)
  \/ \E i \in DOMAIN standing, st \in {"active", "paused"} :
       UpdateStandingBookingStatus(i, st)
  \/ \E t \in {NoTemplate, 1, 3}, d \in {1, 8} : CreateClassSession(t, d, 1)
  \/ \E i \in DOMAIN sessions, st \in {"scheduled", "canceled"} :
       UpdateSessionStatus(i, st)

SpecRealtime == Init /\ [][NextRealtime]_vars

----------------------------------------------------------------------------
(* Specification of session creation: generation from every template over    *)
(* overlapping date ranges, and sessions created by hand.                    *)

InitSessions ==
  /\ subs = InitialSubscriptions
  /\ payments = <<>>
  /\ standing = <<>>
  /\ exceptions = <<>>
  /\ sessions = <<>>
  /\ reservations = <<>>
  /\ inflight = {}
  /\ stats = NoStats
  /\ prevStats = NoStats
  /\ lastOp = Op("init", <<>>, TRUE)
  /\ budget = MaxSessionRequests

NextSessions ==
  \/ \E t \in Templates, s \in {0, 3}, e \in {6, MaxDay} :
       GenerateSessionsFromTemplate(t, s, e)
  \/ \E d \in {1, 2} : CreateClassSession(1, d, 1)
  \/ \E p \in Persons : CreateStandingBooking(p, p, 1, 0, MaxDay, NoSeat)

SpecSessions == InitSessions /\ [][NextSessions]_vars

----------------------------------------------------------------------------
(* Claims *)

NonCanceled(i) ==
  {r \in DOMAIN reservations :
     reservations[r].session = i /\ reservations[r].status # "canceled"}

\* C1 (capacity invariant): a session that holds a reservation made for a
\* seatless standing booking never has more non-canceled reservations than its
\* capacity, whatever materialization runs, seat-assigned standing bookings and
\* manual reservations came before.
CapacityInvariant ==
  \A i \in DOMAIN sessions :
    (\E r \in DOMAIN reservations :
       /\ reservations[r].session = i
       /\ reservations[r].source \in {"standing", "override"}
       /\ reservations[r].seat = NoSeat)
    => Cardinality(NonCanceled(i)) <= sessions[i].capacity

\* C2 (seat exclusivity): for every session and every seat, at most one
\* non-canceled reservation references that (session, seat) pair.
SeatExclusivity ==
  \A r1, r2 \in DOMAIN reservations :
    (/\ reservations[r1].session = reservations[r2].session
     /\ reservations[r1].seat # NoSeat
     /\ reservations[r1].seat = reservations[r2].seat
     /\ reservations[r1].status # "canceled"
     /\ reservations[r2].status # "canceled")
    => r1 = r2

\* A createReservation request for a seat passed its checks, the seat was then
\* given to someone else, and the request's insert was refused by the store.
SeatExclusivityWitness ==
  /\ lastOp.op = "create_reservation"
  /\ ~lastOp.ok
  /\ \E r \in DOMAIN reservations :
       /\ reservations[r].session = lastOp.args[1]
       /\ reservations[r].person # lastOp.args[2]
       /\ reservations[r].seat # NoSeat
       /\ reservations[r].seat = lastOp.args[3]
       /\ reservations[r].status # "canceled"

\* C9: at most one non-canceled reservation per (session, person).
OneReservationPerSessionPerson ==
  \A r1, r2 \in DOMAIN reservations :
    (/\ reservations[r1].session = reservations[r2].session
     /\ reservations[r1].person = reservations[r2].person
     /\ reservations[r1].status # "canceled"
     /\ reservations[r2].status # "canceled")
    => r1 = r2

\* A createReservation request passed its checks, the same person then got a
\* seatless reservation on the session from a materialization run, and the
\* request's insert was refused by the store.
OneReservationPerSessionPersonWitness ==
  /\ lastOp.op = "create_reservation"
  /\ ~lastOp.ok
  /\ lastOp.args[3] = NoSeat
  /\ \E r \in DOMAIN reservations :
       /\ reservations[r].session = lastOp.args[1]
       /\ reservations[r].person = lastOp.args[2]
       /\ reservations[r].source = "standing"
       /\ reservations[r].status # "canceled"


RenewalWritesIntact ==
  /\ subs' = subs
  /\ payments' = payments
  /\ standing' = standing
  /\ reservations' = reservations

\* C4 (renewal is all-or-nothing): after a renewal that failed, none of its
\* writes persist: no new subscription, payment, standing booking or
\* reservation exists, and the member's earlier subscriptions and standing
\* bookings have the status they had.
RenewalAllOrNothing ==
  [][(lastOp'.op = "renew_subscription" /\ ~lastOp'.ok) => RenewalWritesIntact]_vars

\* C5 (renewal atomicity on zero standing bookings): a renewal that needs
\* standing bookings and creates none fails, and leaves every table as it was.
RenewalAtomicOnZeroBookings ==
  [][(/\ lastOp'.op = "renew_subscription"
      /\ lastOp'.args[2]
      /\ lastOp'.args[3] = 0)
     => /\ ~lastOp'.ok
        /\ RenewalWritesIntact
        /\ sessions' = sessions]_vars

\* A renewal that created no standing booking has just failed for a member who
\* still has the active subscription and an active standing booking that the
\* renewal had expired and canceled inside its transaction.
RenewalAtomicOnZeroBookingsWitness ==
  /\ lastOp.op = "renew_subscription"
  /\ lastOp.args[2]
  /\ lastOp.args[3] = 0
  /\ ~lastOp.ok
  /\ \E i \in DOMAIN standing :
       /\ standing[i].person = lastOp.args[1]
       /\ standing[i].status = "active"
       /\ subs[standing[i].sub].status = "active"

\* C6: every person has at most one subscription with status active.
OneActiveSubscription ==
  \A i, j \in DOMAIN subs :
    (subs[i].person = subs[j].person /\ subs[i].status = "active" /\ subs[j].status = "active")
    => i = j

\* C7: at most one standing booking with status active per (person, template).
OneActiveStandingBooking ==
  \A i, j \in DOMAIN standing :
    (/\ standing[i].person = standing[j].person
     /\ standing[i].template = standing[j].template
     /\ standing[i].status = "active"
     /\ standing[j].status = "active")
    => i = j

\* C8: never two standing bookings with status active on the same
\* (template, seat) held by different people.
SeatHeldByOnePerson ==
  \A i, j \in DOMAIN standing :
    (/\ standing[i].template = standing[j].template
     /\ standing[i].seat # NoSeat
     /\ standing[i].seat = standing[j].seat
     /\ standing[i].status = "active"
     /\ standing[j].status = "active")
    => standing[i].person = standing[j].person

\* The last request was a windowed run that repeated, with nothing in between,
\* the run before it, and that first run started with no reservation of the
\* booked people in the window.
RepeatedRun ==
  /\ lastOp.op = "materialize_standing_bookings"
  /\ prevStats.valid
  /\ prevStats.clean

SkippedIn(sb, i, call) ==
  /\ sessions[i].template = standing[sb].template
  /\ sessions[i].date >= call.args[2]
  /\ sessions[i].date <= call.args[2] + 7 * call.args[1]
  /\ \E e \in DOMAIN exceptions :
       /\ exceptions[e].sb = sb
       /\ exceptions[e].date = sessions[i].date
       /\ exceptions[e].action = "skip"

\* The (booking, session) pairs a run over the window visits and finds an
\* exception for.
VisitedExceptions(call) ==
  {<<sb, i>> \in (DOMAIN standing) \X (DOMAIN sessions) :
     /\ standing[sb].status = "active"
     /\ standing[sb].start <= call.args[2] + 7 * call.args[1]
     /\ standing[sb].end >= call.args[2]
     /\ ClassTemplate[standing[sb].template].is_active
     /\ sessions[i].template = standing[sb].template
     /\ sessions[i].status = "scheduled"
     /\ sessions[i].date >= Max(call.args[2], standing[sb].start)
     /\ sessions[i].date <= Min(call.args[2] + 7 * call.args[1], standing[sb].end)
     /\ \E e \in DOMAIN exceptions :
          exceptions[e].sb = sb /\ exceptions[e].date = sessions[i].date}

\* C10 (skip-exception precedence): a windowed run over a window that includes
\* D creates no reservation for the person of a standing booking with a skip
\* exception on D on the template's session dated D, and counts every visited
\* session that has an exception once in skipped_exceptions.
SkipPrecedence ==
  [][lastOp'.op = "materialize_standing_bookings" =>
       /\ \A sb \in DOMAIN standing, i \in DOMAIN sessions :
            SkippedIn(sb, i, lastOp') =>
              \A r \in (DOMAIN reservations') \ (DOMAIN reservations) :
                ~(/\ reservations'[r].session = i
                  /\ reservations'[r].person = standing[sb].person)
       /\ stats'.exceptions = Cardinality(VisitedExceptions(lastOp'))]_vars

\* Session i is one that the run just made (call.args = <<weeks, start>>)
\* visits for standing booking sb, and exception e of sb, dated as i, reschedules
\* it to another session.
Rescheduled(sb, i, e, call) ==
  /\ <<sb, i>> \in VisitedExceptions(call)
  /\ exceptions[e].sb = sb
  /\ exceptions[e].date = sessions[i].date
  /\ exceptions[e].action = "reschedule"
  /\ exceptions[e].new_session \in DOMAIN sessions
  /\ exceptions[e].new_session # i

\* The reservations the step has added.
NewReservations == (DOMAIN reservations') \ (DOMAIN reservations)

\* The seat and capacity rules of session s2 allowed a reservation of standing
\* booking sb during the step: the person got one, or the session still has
\* room (the seat is still free) after the step.
RulesAllowed(sb, s2) ==
  \/ \E r \in NewReservations :
       reservations'[r].session = s2 /\ reservations'[r].person = standing[sb].person
  \/ IF standing[sb].seat = NoSeat
     THEN ActiveCount(reservations', s2) < sessions[s2].capacity
     ELSE ~SeatTaken(reservations', s2, standing[sb].seat)

\* C11 (reschedule-exception precedence): a windowed run over a window that
\* includes D, for a standing booking with a reschedule exception on D pointing
\* to session S2, creates a reservation on S2 with source "override" when the
\* person has no reservation on S2 when the exception is reached (none before
\* the run, none made by the run for S2 as a regular session) and S2's capacity
\* and seat rules allow, and creates no reservation on the original session
\* dated D.
ReschedulePrecedence ==
  [][lastOp'.op = "materialize_standing_bookings" =>
       \A sb \in DOMAIN standing, i \in DOMAIN sessions, e \in DOMAIN exceptions :
         Rescheduled(sb, i, e, lastOp') =>
           /\ (/\ ~ExistingReservation(reservations, exceptions[e].new_session,
                                       standing[sb].person)
               /\ ~\E r \in NewReservations :
                     /\ reservations'[r].session = exceptions[e].new_session
                     /\ reservations'[r].person = standing[sb].person
                     /\ reservations'[r].source = "standing"
               /\ RulesAllowed(sb, exceptions[e].new_session))
              => \E r \in NewReservations :
                   /\ reservations'[r].session = exceptions[e].new_session
                   /\ reservations'[r].person = standing[sb].person
                   /\ reservations'[r].source = "override"
           /\ ~\E r \in NewReservations :
                 /\ reservations'[r].session = i
                 /\ reservations'[r].person = standing[sb].person]_vars

\* The sessions a generation step has added.
NewSessionIds == (DOMAIN sessions') \ (DOMAIN sessions)

\* Transition: a generation request is served.
GenerateStep == lastOp'.op = "generate_sessions_from_template"

\* The (template, date) pairs with the number of their sessions, as a function.
SessionCount(sess, t, d) ==
  Cardinality({i \in DOMAIN sess : sess[i].template = t /\ sess[i].date = d})

\* The store as it was before the previous generation request (sessions are
\* only ever appended).
BeforePrevious ==
  [DB EXCEPT !.sess = SubSeq(sessions, 1, Len(sessions) - lastOp.args[4])]

\* C12 (session-expansion idempotency): a generation call creates no session
\* for a date that already has a session of the template, and when it follows
\* a call for the same template over an overlapping range, the sessions of the
\* template after the two calls are those of a single call over the union of
\* the two ranges.
SessionExpansionIdempotency ==
  [][GenerateStep =>
       LET t == lastOp'.args[1]
           s == lastOp'.args[2]
           e == lastOp'.args[3]
       IN /\ \A i \in NewSessionIds :
               /\ sessions'[i].template = t
               /\ sessions'[i].date \in s..e
               /\ SessionCount(sessions, t, sessions'[i].date) = 0
               /\ SessionCount(sessions', t, sessions'[i].date) = 1
          /\ \A i \in DOMAIN sessions : sessions'[i] = sessions[i]
          /\ (/\ lastOp.op = "generate_sessions_from_template"
              /\ lastOp.ok /\ lastOp'.ok
              /\ lastOp.args[1] = t
              /\ Max(lastOp.args[2], s) <= Min(lastOp.args[3], e))
             => LET single == generate_sessions_from_template(
                                BeforePrevious, t, Min(lastOp.args[2], s),
                                Max(lastOp.args[3], e)).tx.sess
                IN /\ Len(sessions') = Len(single)
                   /\ \A d \in Days : SessionCount(sessions', t, d) = SessionCount(single, t, d)]_vars

\* A second call over an overlapping range has run: it found an older session
\* of the template inside its range and added the missing one.
SessionExpansionIdempotencyWitness ==
  /\ lastOp.op = "generate_sessions_from_template"
  /\ lastOp.ok
  /\ lastOp.args[4] >= 1
  /\ \E i \in 1..(Len(sessions) - lastOp.args[4]) :
       /\ sessions[i].template = lastOp.args[1]
       /\ sessions[i].date \in lastOp.args[2]..lastOp.args[3]
  /\ SessionCount(sessions, lastOp.args[1], 2) = 1
  /\ SessionCount(sessions, lastOp.args[1], MaxDay) = 1

\* C13 (one session per template and date): no two sessions share a template
\* and a calendar date, whatever session-creating operations have run.
OneSessionPerTemplateDate ==
  \A i, j \in DOMAIN sessions :
    (/\ sessions[i].template # NoTemplate
     /\ sessions[i].template = sessions[j].template
     /\ sessions[i].date = sessions[j].date) => i = j

\* The weekday of a day counted from Sunday (0=Sunday .. 6=Saturday).
SundayWeekday(d) == (PyWeekday(d) + 1) % 7

\* C14 (weekday correctness): generation for an active template of weekday W
\* over [s, e], on a store holding no session of the template, creates exactly
\* one session for each date of [s, e] whose Sunday-based weekday is W and
\* none on any other date.
WeekdayCorrectness ==
  [][(/\ GenerateStep
      /\ lastOp'.args[1] \in Templates
      /\ ClassTemplate[lastOp'.args[1]].is_active
      /\ \A i \in DOMAIN sessions : sessions[i].template # lastOp'.args[1])
     => LET t == lastOp'.args[1]
            s == lastOp'.args[2]
            e == lastOp'.args[3]
        IN /\ lastOp'.ok
           /\ \A d \in Days :
                Cardinality({i \in NewSessionIds :
                               sessions'[i].template = t /\ sessions'[i].date = d})
                  = IF d \in s..e /\ SundayWeekday(d) = ClassTemplate[t].weekday
                    THEN 1 ELSE 0
           /\ \A i \in NewSessionIds :
                sessions'[i].template = t /\ sessions'[i].date \in Days]_vars

\* A generation over the whole calendar on an empty store has created the two
\* sessions of a template.
WeekdayCorrectnessWitness ==
  /\ lastOp.op = "generate_sessions_from_template"
  /\ lastOp.ok
  /\ lastOp.args[4] = 2
  /\ Len(sessions) = 2
  /\ ClassTemplate[lastOp.args[1]].is_active

\* The reservation attempt of a holder (person, seat) on session sid, made on
\* the current store with fresh counters.
Attempt(p, seat, sid) ==
  create_reservation_if_possible([tx |-> DB, stats |-> Stats0],
                                 [person |-> p, seat |-> seat], sid, "standing")

\* The counters of an attempt that took the given outcome.
Counted(outcome) ==
  [Stats0 EXCEPT ![outcome] = 1]

\* C15 (reservation-attempt decision order): on an existing session, a row of
\* any status for (session, person) gives skipped_existing; otherwise with a
\* seat the attempt gives skipped_seat_taken exactly when an active
\* reservation holds the seat and never skipped_no_capacity; otherwise without
\* a seat it gives skipped_no_capacity exactly when the active count has
\* reached the capacity; otherwise one reservation with status reserved is
\* created.  Exactly one counter moves and a skip neither writes nor raises.
AttemptDecisionOrder ==
  \A p \in Persons, seat \in {NoSeat} \cup Seats, sid \in DOMAIN sessions :
    LET r == Attempt(p, seat, sid)
        row == \E i \in DOMAIN reservations :
                 reservations[i].session = sid /\ reservations[i].person = p
        held == \E i \in DOMAIN reservations :
                  /\ reservations[i].session = sid
                  /\ reservations[i].seat = seat
                  /\ reservations[i].status \in {"reserved", "checked_in"}
        active == Cardinality({i \in DOMAIN reservations :
                                 /\ reservations[i].session = sid
                                 /\ reservations[i].status \in {"reserved", "checked_in"}})
        outcome == IF row THEN "existing"
                   ELSE IF seat # NoSeat THEN (IF held THEN "seat_taken" ELSE "created")
                   ELSE IF active >= sessions[sid].capacity THEN "no_capacity"
                   ELSE "created"
    IN /\ r.stats = Counted(outcome)
       /\ ~r.tx.broken
       /\ IF outcome = "created"
          THEN r.tx = [DB EXCEPT !.res = Append(@, [session |-> sid, person |-> p,
                                                    seat |-> seat, status |-> "reserved",
                                                    source |-> "standing", checked_out |-> FALSE])]
          ELSE r.tx = DB

\* A windowed run has met all of a created reservation, an existing row and a
\* full session or taken seat.
AttemptDecisionOrderWitness ==
  /\ lastOp.op = "materialize_standing_bookings"
  /\ stats.valid
  /\ stats.created >= 1
  /\ stats.existing >= 1
  /\ stats.no_capacity + stats.seat_taken >= 1
  /\ \E i \in DOMAIN reservations : reservations[i].status = "canceled"

\* A renewal that reached the post-materialization assertion has been served;
\* its statistics.
RenewalAssertedStep ==
  /\ lastOp.op = "renew_subscription"
  /\ lastOp.args[5]
RenewalStats == lastOp.args[6]
RenewalSignals ==
  RenewalStats.seat_taken + RenewalStats.no_capacity + RenewalStats.errors > 0
    \/ lastOp.args[7]

RegistryRefuses(p, sub, t, seat) ==
  \/ sub \notin DOMAIN subs
  \/ subs[sub].person # p
  \/ subs[sub].status # "active"
  \/ t \notin Templates
  \/ ~ClassTemplate[t].is_active
  \/ seat # NoSeat /\ (seat \notin Seats \/ ~Seat[seat].is_active
                        \/ Seat[seat].venue # ClassTemplate[t].venue)
  \/ \E i \in DOMAIN standing :
       standing[i].person = p /\ standing[i].template = t /\ standing[i].status = "active"
  \/ seat # NoSeat /\ \E i \in DOMAIN standing :
       /\ standing[i].template = t /\ standing[i].seat = seat
       /\ standing[i].status = "active" /\ standing[i].person # p

\* C17 (registry validation): create_standing_booking is refused and persists
\* nothing when the subscription is missing, of another person or not active,
\* the template is missing or inactive, the seat is not an active seat of the
\* template's venue, the person already has an active standing booking for the
\* template, or the seat is held on the template by an active standing booking
\* of another person; otherwise it creates exactly one standing booking, with
\* status active.
RegistryValidation ==
  [][\A p \in Persons, sub \in 1..MaxSubs, t \in {NoTemplate, 1, 2, 3},
        seat \in {NoSeat, UnknownSeat} \cup Seats :
       CreateStandingBooking(p, sub, t, 0, MaxDay, seat) =>
         IF RegistryRefuses(p, sub, t, seat)
         THEN /\ ~lastOp'.ok
              /\ standing' = standing
              /\ subs' = subs /\ payments' = payments /\ exceptions' = exceptions
              /\ sessions' = sessions /\ reservations' = reservations
         ELSE /\ lastOp'.ok
              /\ standing' = Append(standing, [person |-> p, sub |-> sub, template |-> t,
                                               seat |-> seat, start |-> 0, end |-> MaxDay,
                                               status |-> "active"])
              /\ subs' = subs /\ payments' = payments /\ exceptions' = exceptions
              /\ sessions' = sessions /\ reservations' = reservations]_vars

\* A creation request has been refused on a registry that holds an active
\* standing booking with a seat and an expired subscription.
RegistryValidationWitness ==
  /\ lastOp.op = "create_standing_booking"
  /\ ~lastOp.ok
  /\ \E i \in DOMAIN standing : standing[i].status = "active" /\ standing[i].seat # NoSeat
  /\ \E i \in DOMAIN subs : subs[i].status = "expired"

\* The standing bookings a windowed run over [lo, hi] with the given filters
\* may process.
InWindow(i, lo, hi, subscription_id, template_id) ==
  /\ standing[i].status = "active"
  /\ standing[i].start <= hi
  /\ standing[i].end >= lo
  /\ (subscription_id # NoId => standing[i].sub = subscription_id)
  /\ (template_id # NoTemplate => standing[i].template = template_id)

\* The outcome m of a windowed run over [lo, hi] on the current store obeys
\* the selection: the processed bookings are those of the window, and every
\* reservation the run adds belongs to one of them, on a session dated within
\* the window and the booking's validity when its source is "standing".
SelectionObeyed(m, lo, hi, subscription_id, template_id) ==
  /\ m.stats.processed =
       Cardinality({i \in DOMAIN standing : InWindow(i, lo, hi, subscription_id, template_id)})
  /\ \A r \in (DOMAIN m.tx.res) \ (DOMAIN reservations) :
       LET row == m.tx.res[r]
       IN \E i \in DOMAIN standing :
            /\ InWindow(i, lo, hi, subscription_id, template_id)
            /\ standing[i].person = row.person
            /\ standing[i].seat = row.seat
            /\ IF row.source = "standing"
               THEN /\ sessions[row.session].template = standing[i].template
                    /\ sessions[row.session].date >= lo
                    /\ sessions[row.session].date <= hi
                    /\ sessions[row.session].date >= standing[i].start
                    /\ sessions[row.session].date <= standing[i].end
               ELSE /\ row.source = "override"
                    /\ \E e \in DOMAIN exceptions :
                         /\ exceptions[e].sb = i
                         /\ exceptions[e].new_session = row.session

\* C18 (windowed selection): a windowed run processes only the standing
\* bookings with status active whose validity range intersects the window
\* [start, start + 7 * window_weeks] and that match the optional subscription
\* and template filters; paused and canceled bookings receive no reservation
\* from the run, and no reservation with source "standing" is created on a
\* session dated outside the window or outside the booking's validity range.
WindowedSelection ==
  \A start_date \in {0, 2}, subscription_id \in {NoId, 1}, template_id \in {NoTemplate, 2} :
    \A order \in Orders(SelectedStandingBookings(standing, start_date, start_date + 7,
                                                 subscription_id, template_id)) :
      SelectionObeyed(materialize_standing_bookings(DB, 1, start_date, subscription_id,
                                                    template_id, order),
                      start_date, start_date + 7, subscription_id, template_id)

\* A windowed run from day 2 has created a reservation while a paused booking
\* and a session dated before the window were left without one.
WindowedSelectionWitness ==
  /\ lastOp = Op("materialize_standing_bookings", <<1, 2>>, TRUE)
  /\ stats.created >= 1
  /\ \E i \in DOMAIN standing :
       /\ standing[i].status = "paused"
       /\ \A r \in DOMAIN reservations : reservations[r].person # standing[i].person
  /\ \E j \in DOMAIN sessions :
       /\ sessions[j].date < 2
       /\ \A r \in DOMAIN reservations : reservations[r].session # j

\* A concurrent run has ended; its bookings in the order it took them, its
\* statistics and the bookings it recorded an error for.
RunEnded == lastOp.op = "materialize_standing_bookings_run"
RunSelected == lastOp.args[2]
RunErrors == lastOp.args[4]

\* C19 (per-item error isolation): when processing one standing booking of a
\* windowed batch raises, the error is recorded for that booking, the batch
\* goes through all of its bookings and returns its statistics, and every
\* standing booking after the failed one is still processed without error.
PerItemErrorIsolation ==
  (RunEnded /\ RunErrors # {}) =>
    /\ lastOp.args[3].processed = Len(RunSelected)
    /\ lastOp.args[3].errors = 1
    /\ \A k \in 1..Len(RunSelected) :
         RunSelected[k] \in RunErrors =>
           \A j \in (k + 1)..Len(RunSelected) : RunSelected[j] \notin RunErrors

\* C20 (constraint violation as skip under concurrency): when two runs have
\* both passed the pre-check for the same (session, person) or (session,
\* seat), the store holds at most one reservation for the pair and the losing
\* run records a skip and goes on: it neither records an error nor fails.
ConstraintViolationAsSkip ==
  /\ \A i, j \in DOMAIN reservations :
       (/\ reservations[i].session = reservations[j].session
        /\ \/ reservations[i].person = reservations[j].person
           \/ /\ reservations[i].seat # NoSeat
              /\ reservations[i].seat = reservations[j].seat
              /\ reservations[i].status \in {"reserved", "checked_in"}
              /\ reservations[j].status \in {"reserved", "checked_in"}) => i = j
  /\ RunEnded => (lastOp.ok /\ RunErrors = {})

\* The outcome every reservation attempt of booking sb on session i leaves
\* behind: a row of the person on the session, or a session without room for
\* the booking (full, or the seat held).
AttemptedOn(sb, i) ==
  \/ ExistingReservation(reservations', i, standing[sb].person)
  \/ IF standing[sb].seat = NoSeat
     THEN ActiveCount(reservations', i) >= sessions'[i].capacity
     ELSE SeatTaken(reservations', i, standing[sb].seat)

\* C21 (session-creation hook): when an operation that succeeds creates a
\* session from an active template, every standing booking that is active
\* before and after the operation, is for that template and covers the
\* session's date has had a reservation attempt on the session by the time
\* the operation returns.
SessionCreationHook ==
  [][lastOp'.ok =>
       \A i \in NewSessionIds, sb \in DOMAIN standing :
         (/\ sessions'[i].template \in Templates
          /\ ClassTemplate[sessions'[i].template].is_active
          /\ sessions'[i].status = "scheduled"
          /\ standing[sb].status = "active"
          /\ standing'[sb].status = "active"
          /\ standing[sb].template = sessions'[i].template
          /\ standing[sb].start <= sessions'[i].date
          /\ standing[sb].end >= sessions'[i].date)
         => AttemptedOn(sb, i)]_vars

\* The standing bookings that cover session sid.
Covering(sid) ==
  {i \in DOMAIN standing :
     /\ standing[i].status = "active"
     /\ standing[i].template = sessions[sid].template
     /\ standing[i].start <= sessions[sid].date
     /\ standing[i].end >= sessions[sid].date}

\* The session is one real-time materialization works on.
Eligible(sid) ==
  /\ sid \in DOMAIN sessions
  /\ sessions[sid].template \in Templates
  /\ sessions[sid].status = "scheduled"
  /\ ClassTemplate[sessions[sid].template].is_active

\* The rows the standing bookings query of the real-time run returns.
RealtimeOrders(sid) ==
  IF sid \in DOMAIN sessions THEN Orders(SessionStandingBookings(DB, sid)) ELSE {<<>>}

\* The outcome r of real-time materialization of session sid on the current
\* store is that of one "standing" attempt per covering booking.
RealtimeOutcome(r, sid) ==
  IF ~Eligible(sid) THEN r.tx = DB /\ r.stats = Stats0
  ELSE /\ r.stats.processed = Cardinality(Covering(sid))
       /\ r.stats.exceptions = 0
       /\ r.stats.errors = 0
       /\ r.stats.created + r.stats.existing + r.stats.no_capacity + r.stats.seat_taken
            = r.stats.processed
       /\ Len(r.tx.res) = Len(reservations) + r.stats.created
       /\ \A k \in (DOMAIN r.tx.res) \ (DOMAIN reservations) :
            /\ r.tx.res[k].session = sid
            /\ r.tx.res[k].source = "standing"
            /\ r.tx.res[k].status = "reserved"
            /\ \E i \in Covering(sid) :
                 standing[i].person = r.tx.res[k].person /\ standing[i].seat = r.tx.res[k].seat
       /\ \A i \in Covering(sid) :
            \/ \E k \in DOMAIN r.tx.res :
                 r.tx.res[k].session = sid /\ r.tx.res[k].person = standing[i].person
            \/ IF standing[i].seat = NoSeat
               THEN Cardinality({k \in DOMAIN r.tx.res :
                                   /\ r.tx.res[k].session = sid
                                   /\ r.tx.res[k].status \in {"reserved", "checked_in"}})
                      >= sessions[sid].capacity
               ELSE \E k \in DOMAIN r.tx.res :
                      /\ r.tx.res[k].session = sid
                      /\ r.tx.res[k].seat = standing[i].seat
                      /\ r.tx.res[k].status \in {"reserved", "checked_in"}

\* C22 (real-time materialization): materialize_for_session makes one
\* source=standing reservation attempt for every active standing booking of
\* the session's template whose validity range covers the session's date,
\* whatever exceptions the booking has; for a missing, ad-hoc, non-scheduled
\* or inactive-template session it processes no booking and creates nothing.
RealtimeMaterialization ==
  \A sid \in 1..(Len(sessions) + 1) :
    \A order \in RealtimeOrders(sid) :
      RealtimeOutcome(materialize_standing_bookings_for_session(DB, sid, order), sid)

\* A session created by hand carries the reservation of a booking that has a
\* skip exception on the session's date, next to a canceled and an ad-hoc
\* session.
RealtimeMaterializationWitness ==
  /\ lastOp.op = "create_class_session"
  /\ \E r \in DOMAIN reservations, e \in DOMAIN exceptions, i \in DOMAIN standing :
       /\ reservations[r].session = Len(sessions)
       /\ reservations[r].person = standing[i].person
       /\ reservations[r].source = "standing"
       /\ exceptions[e].sb = i
       /\ exceptions[e].date = sessions[Len(sessions)].date
  /\ \E j \in DOMAIN sessions : sessions[j].status = "canceled" \/ sessions[j].template = NoTemplate

\* The first date on or after d on which template u occurs (Sunday = 0).
FirstOccurrence(d, u) ==
  CHOOSE x \in d..(d + 6) :
    /\ SundayWeekday(x) = ClassTemplate[u].weekday
    /\ \A y \in d..(x - 1) : SundayWeekday(y) # ClassTemplate[u].weekday

\* After the step, member has exactly one active standing booking for every
\* active template of the time-slot group of template t, each of the newest
\* subscription, from the template's first occurrence to the subscription's end.
GroupExpanded(member, t) ==
  \A u \in Templates :
    (ClassTemplate[u].is_active /\ ClassTemplate[u].group = ClassTemplate[t].group) =>
      LET mine == {i \in DOMAIN standing' :
                     /\ standing'[i].person = member
                     /\ standing'[i].template = u
                     /\ standing'[i].status = "active"}
      IN /\ Cardinality(mine) = 1
         /\ \A i \in mine :
              /\ standing'[i].sub = Len(subs')
              /\ standing'[i].start = FirstOccurrence(subs'[Len(subs')].start, u)
              /\ standing'[i].end = subs'[Len(subs')].end

\* C23: after a successful renewal or enrollment with a template, the member
\* has exactly one active standing booking for every active template of the
\* template's time-slot group, all of the new subscription, each starting on
\* the template's first occurrence on or after the subscription's start and
\* ending on the subscription's end date.
TimeSlotGroupExpansion ==
  [][\A p \in Persons, plan \in 1..2, t \in {NoTemplate, 1, 3}, seat \in {NoSeat} \cup Seats :
       (/\ lastOp'.ok
        /\ lastOp'.op \in {"renew_subscription", "create_member_enrollment"}
        /\ subs'[Len(subs')].person = p
        /\ RenewalTarget(DB, p, t, seat).template \in Templates
        /\ \/ RenewSubscription(p, plan, t, seat, 0)
           \/ CreateMemberEnrollment(p, plan, t, seat, 0))
       => GroupExpanded(p, RenewalTarget(DB, p, t, seat).template)]_vars

----------------------------------------------------------------------------
(* Specification of weekday alignment: enrollments and renewals of one       *)
(* member with every plan and template of the catalogue and a subscription   *)
(* start on every weekday, on a store that may hold generated sessions.      *)

InitAlignment ==
  /\ subs = <<>>
  /\ payments = <<>>
  /\ standing = <<>>
  /\ exceptions = <<>>
  /\ sessions = <<>>
  /\ reservations = <<>>
  /\ inflight = {}
  /\ stats = NoStats
  /\ prevStats = NoStats
  /\ lastOp = Op("init", <<>>, TRUE)
  /\ budget = MaxAlignRequests

NextAlignment ==
  \/ \E plan \in Plans, t \in Templates, s \in 0..6 :
       CreateMemberEnrollment(1, plan, t, NoSeat, s)
  \/ \E plan \in Plans, t \in Templates, s \in 0..6 :
       RenewSubscription(1, plan, t, NoSeat, s)
  \/ \E t \in Templates : GenerateSessionsFromTemplate(t, 0, MaxDay)

SpecAlignment == InitAlignment /\ [][NextAlignment]_vars

\* C24: a standing booking that an enrollment or renewal creates for a
\* template with weekday w (Sunday = 0) and a subscription starting on d starts
\* on the least date d' with d <= d' <= d + 6 whose weekday is w; the session
\* expander matches the template on d', and under a week plan, whose window
\* covers d .. d + 6, the step leaves a session of the template on d'.
WeekdayAlignment ==
  [][\A i \in DOMAIN standing' :
       i > Len(standing) =>
         LET sb == standing'[i]
             d == subs'[sb.sub].start
             w == ClassTemplate[sb.template].weekday
         IN /\ sb.start \in d..(d + 6)
            /\ SundayWeekday(sb.start) = w
            /\ \A y \in d..(sb.start - 1) : SundayWeekday(y) # w
            /\ MatchingDates(sb.template, d, d + 6) = {sb.start}
            /\ (lastOp'.ok /\ MembershipPlan[subs'[sb.sub].plan].duration_unit = "week") =>
                 \E j \in DOMAIN sessions' :
                   sessions'[j].template = sb.template /\ sessions'[j].date = sb.start]_vars

\* A booking of the Sunday template (weekday 0) whose start was moved past its
\* subscription's start, with its session generated.
WeekdayAlignmentWitness ==
  \E i \in DOMAIN standing :
    /\ ClassTemplate[standing[i].template].weekday = 0
    /\ standing[i].start > subs[standing[i].sub].start
    /\ \E j \in DOMAIN sessions :
         sessions[j].template = standing[i].template /\ sessions[j].date = standing[i].start

\* The transaction of an enrollment after its subscription and payment.
EnrollmentWrites(tx, person_id, plan_id, start_at) ==
  create_payment(create_membership_subscription(tx, person_id, plan_id, start_at),
                 person_id, Len(tx.subs) + 1)

\* The days a plan's window counts: duration_value days for a day plan,
\* 7 * duration_value days for a week plan, 0 for "up to the subscription end".
PlanWindowDays(plan) ==
  IF plan.duration_unit = "day" THEN plan.duration_value
  ELSE IF plan.duration_unit = "week" THEN 7 * plan.duration_value
  ELSE 0

\* The window end of the bound counted from date from.
BoundedEnd(sub, from) ==
  IF PlanWindowDays(MembershipPlan[sub.plan]) = 0 THEN sub.end
  ELSE Min(sub.end, from + PlanWindowDays(MembershipPlan[sub.plan]) - 1)

EarliestStart(g, sub) ==
  IF g.starts = <<>> THEN sub.start
  ELSE CHOOSE d \in {g.starts[k] : k \in DOMAIN g.starts} : \A k \in DOMAIN g.starts : d <= g.starts[k]

\* The window of the group bookings g of the newest subscription ends on the
\* bound counted from the subscription's start, the step adds no session after
\* it and leaves a session on every group booking's start up to it.
WindowFromSubscriptionStart(g, sub) ==
  /\ EffectsWindow(g, Len(g.tx.subs)).end = BoundedEnd(sub, sub.start)
  /\ \A j \in DOMAIN sessions' : j > Len(sessions) => sessions'[j].date <= BoundedEnd(sub, sub.start)
  /\ \A k \in DOMAIN g.used :
       g.starts[k] <= BoundedEnd(sub, sub.start) =>
         \E j \in DOMAIN sessions' :
           sessions'[j].template = g.used[k] /\ sessions'[j].date = g.starts[k]

WindowFromEarliestStart(g, sub) ==
  EffectsWindow(g, Len(g.tx.subs)).end = BoundedEnd(sub, EarliestStart(g, sub))

\* The window statement W for the step's request, when the step is a renewal
\* or an enrollment with a template.
RenewalRequest == lastOp'.args[8]
RenewalPaid == RenewalWrites(DB, lastOp'.args[1], RenewalRequest[1], RenewalRequest[4])
RenewalGroup ==
  create_standing_bookings_for_group(
    RenewalPaid, Len(subs) + 1,
    RenewalTarget(DB, lastOp'.args[1], RenewalRequest[2], RenewalRequest[3]).template,
    RenewalTarget(DB, lastOp'.args[1], RenewalRequest[2], RenewalRequest[3]).seat)
EnrollmentPaid == EnrollmentWrites(DB, lastOp'.args[1], lastOp'.args[2], lastOp'.args[5])
EnrollmentGroup ==
  create_standing_bookings_for_group(EnrollmentPaid, Len(subs) + 1, lastOp'.args[3], lastOp'.args[4])

\* C25 as stated: the coverage window of a renewal or enrollment ends on the
\* minimum of the subscription end date and a bound counted from the earliest
\* aligned standing booking start (duration_value days for a day plan,
\* 7 * duration_value days for a week plan, the subscription end for a month
\* plan).
CoverageWindowAsStated ==
  [][/\ (lastOp'.op = "renew_subscription" /\ lastOp'.args[2] /\ RenewalRequest[2] # NoTemplate)
          => WindowFromEarliestStart(RenewalGroup, RenewalPaid.subs[Len(subs) + 1])
     /\ (lastOp'.op = "create_member_enrollment" /\ lastOp'.args[3] # NoTemplate)
          => WindowFromEarliestStart(EnrollmentGroup, EnrollmentPaid.subs[Len(subs) + 1])]_vars

\* C25, amended: the coverage window of a renewal or enrollment ends on the
\* minimum of the subscription end date and a bound counted from the
\* subscription's start date (duration_value days for a day plan,
\* 7 * duration_value days for a week plan, the subscription end for a month
\* plan); no session is generated after it and every group booking that starts
\* within it has its first session.
CoverageWindowBound ==
  [][/\ (lastOp'.op = "renew_subscription" /\ lastOp'.args[2] /\ RenewalRequest[2] # NoTemplate)
          => WindowFromSubscriptionStart(RenewalGroup, RenewalPaid.subs[Len(subs) + 1])
     /\ (lastOp'.op = "create_member_enrollment" /\ lastOp'.args[3] # NoTemplate)
          => WindowFromSubscriptionStart(EnrollmentGroup, EnrollmentPaid.subs[Len(subs) + 1])]_vars

\* A successful step under the day plan whose only group booking starts after
\* the subscription's start and has its reservation.
CoverageWindowBoundWitness ==
  /\ lastOp.ok
  /\ lastOp.op \in {"renew_subscription", "create_member_enrollment"}
  /\ MembershipPlan[subs[Len(subs)].plan].duration_unit = "day"
  /\ \E i \in DOMAIN standing, r \in DOMAIN reservations :
       /\ standing[i].sub = Len(subs)
       /\ standing[i].start > subs[Len(subs)].start
       /\ sessions[reservations[r].session].date = standing[i].start
       /\ reservations[r].person = standing[i].person

----------------------------------------------------------------------------
(* The materialization preview (standingBookingsCrud.py,                     *)
(* graphql/standing_bookings/mutations.py)                                   *)

\* The status the preview gives session sid for standing booking sbId.
preview_status(tx, sbId, sid) ==
  LET sb == tx.sbs[sbId]
      e == ExceptionOn(tx.excs, sbId, tx.sess[sid].date)
  IN IF e # NoId /\ tx.excs[e].action = "skip" THEN "skipped"
     ELSE IF e # NoId /\ tx.excs[e].action = "reschedule" THEN "rescheduled"
     ELSE IF ExistingReservation(tx.res, sid, sb.person) THEN "existing"
     ELSE IF sb.seat # NoSeat
     THEN (IF SeatTaken(tx.res, sid, sb.seat) THEN "blocked" ELSE "will_create")
     ELSE IF ActiveCount(tx.res, sid) >= tx.sess[sid].capacity THEN "blocked"
     ELSE "will_create"

\* The preview entries of the listed sessions, in order.
preview_entries(tx, sbId, todo) ==
  [k \in DOMAIN todo |->
     LET e == ExceptionOn(tx.excs, sbId, tx.sess[todo[k]].date)
     IN [date |-> tx.sess[todo[k]].date,
         session_id |-> IF preview_status(tx, sbId, todo[k]) = "rescheduled"
                        THEN tx.excs[e].new_session ELSE todo[k],
         status |-> preview_status(tx, sbId, todo[k])]]

\* The preview of a standing booking on day today: the scheduled sessions of
\* its template from max(today, start_date) to the earlier of window_weeks
\* weeks after that date and end_date.
get_materialization_preview(tx, standing_booking_id, window_weeks, today) ==
  IF standing_booking_id \notin DOMAIN tx.sbs THEN <<>>
  ELSE IF tx.sbs[standing_booking_id].template \notin Templates THEN <<>>
  ELSE preview_entries(tx, standing_booking_id,
         SessionsInRange(tx.sess, tx.sbs[standing_booking_id].template,
                         Max(today, tx.sbs[standing_booking_id].start),
                         Min(Max(today, tx.sbs[standing_booking_id].start) + 7 * window_weeks,
                             tx.sbs[standing_booking_id].end)))

MaterializingPreview(standing_booking_id, window_weeks, today) ==
  /\ Served
  /\ Commit(materialize_standing_bookings(DB, window_weeks, today, NoId, NoTemplate,
                                          SeqOfSet(DOMAIN standing)).tx)
  /\ Done("get_materialization_preview",
          <<standing_booking_id, window_weeks, today,
            get_materialization_preview(DB, standing_booking_id, window_weeks, today)>>, TRUE)
  /\ UNCHANGED inflight

\* The getMaterializationPreview mutation: no write, no commit.
GetMaterializationPreview(standing_booking_id, window_weeks, today) ==
  /\ Served
  /\ Rollback
  /\ Done("get_materialization_preview",
          <<standing_booking_id, window_weeks, today,
            get_materialization_preview(DB, standing_booking_id, window_weeks, today)>>, TRUE)
  /\ UNCHANGED inflight

----------------------------------------------------------------------------
(* Specification of the preview: standing bookings that start today or      *)
(* later, sessions, reservations and exceptions, materialization runs and    *)
(* previews for existing and missing standing booking ids.                   *)

InitPreview ==
  /\ subs = InitialSubscriptions
  /\ payments = <<>>
  /\ standing = <<>>
  /\ exceptions = <<>>
  /\ sessions = <<>>
  /\ reservations = <<>>
  /\ inflight = {}
  /\ stats = NoStats
  /\ prevStats = NoStats
  /\ lastOp = Op("init", <<>>, TRUE)
  /\ budget = MaxPreviewRequests

NextPreview ==
  \/ GenerateSessionsFromTemplate(1, 0, MaxDay)
  \/ \E p \in Persons, s \in {0, 2}, seat \in {NoSeat} \cup Seats :
       CreateStandingBooking(p, p, 1, s, MaxDay, seat)
  \/ \E i \in DOMAIN sessions, p \in Persons, seat \in {NoSeat} \cup Seats :
       CreateReservation(i, p, seat)
  \/ \E i \in DOMAIN standing, n, d \in DOMAIN sessions :
       \/ CreateStandingBookingException(i, sessions[d].date, "skip", NoSession)
       \/ CreateStandingBookingException(i, sessions[d].date, "reschedule", n)
  \/ \E w \in 1..2 : MaterializeStandingBookings(w, 0)
  \/ \E i \in 1..MaxStanding, w \in 1..2 : GetMaterializationPreview(i, w, 0)

SpecPreview == InitPreview /\ [][NextPreview]_vars

\* The sessions the preview of booking i gives status st, before the step.
Previewed(i, st) ==
  LET pv == get_materialization_preview(DB, i, lastOp'.args[1], lastOp'.args[2])
  IN {pv[k].session_id : k \in {x \in DOMAIN pv : pv[x].status = st}}

\* The sessions on which the step created a source=standing reservation for
\* the person of booking i.
MaterializedFor(i) ==
  {reservations'[r].session :
     r \in {x \in DOMAIN reservations' :
              /\ x > Len(reservations)
              /\ reservations'[x].person = standing[i].person
              /\ reservations'[x].source = "standing"}}

\* C26: when materialize(window_weeks = w, start_date = today) runs with one
\* active standing booking, of an active template, the sessions the preview of
\* that booking for w classified as will_create just before the run are
\* exactly those on which the run creates its source=standing reservations,
\* and those classified existing or blocked are as many as the run counts as
\* skipped_existing and as skipped_seat_taken or skipped_no_capacity.
PreviewAgreesWithMaterialization ==
  [][(lastOp'.op = "materialize_standing_bookings" /\ lastOp'.ok) =>
       \A i \in DOMAIN standing :
         (/\ standing[i].status = "active"
          /\ ClassTemplate[standing[i].template].is_active
          /\ \A j \in DOMAIN standing : j # i => standing[j].status # "active")
         => /\ Previewed(i, "will_create") = MaterializedFor(i)
            /\ Cardinality(Previewed(i, "existing")) = stats'.existing
            /\ Cardinality(Previewed(i, "blocked")) = stats'.seat_taken + stats'.no_capacity]_vars

\* C27: a getMaterializationPreview request, for an existing or a missing
\* standing booking id and any window, leaves every standing booking,
\* exception, session and reservation unchanged.
PreviewReadOnly ==
  [][lastOp'.op = "get_materialization_preview" =>
       UNCHANGED <<standing, exceptions, sessions, reservations>>]_vars

\* A preview that lists a session as will_create has been served.
PreviewReadOnlyWitness ==
  /\ lastOp.op = "get_materialization_preview"
  /\ \E k \in DOMAIN lastOp.args[4] : lastOp.args[4][k].status = "will_create"
  /\ reservations = <<>>

----------------------------------------------------------------------------
(* Specification of standing booking dates: direct creations with any pair   *)
(* of dates, and the group creation of renewals of every plan.               *)

NextDates ==
  \/ \E p \in Persons : CreateSubscription(p, 1, 0)
  \/ \E i \in DOMAIN subs, t \in {1, 2}, s \in {0, 5}, e \in {3, MaxDay} :
       CreateStandingBooking(subs[i].person, i, t, s, e, NoSeat)
  \/ \E p \in Persons, plan \in Plans, t \in {1, 4} :
       RenewSubscription(p, plan, t, NoSeat, 0)
  \/ \E i \in DOMAIN standing, st \in {"active", "canceled"} :
       UpdateStandingBookingStatus(i, st)

SpecDates == InitMembership /\ [][NextDates]_vars

\* C28: every standing booking that exists after any sequence of direct
\* creations and of group creations during renewals has start_date <= end_date.
StandingBookingDatesOrdered ==
  \A i \in DOMAIN standing : standing[i].start <= standing[i].end

\* The dates of the sessions and of the reservations the step added.
AddedDates ==
  {sessions'[j].date : j \in (Len(sessions) + 1)..Len(sessions')}
    \cup {sessions'[reservations'[r].session].date :
            r \in (Len(reservations) + 1)..Len(reservations')}

\* Everything the step added is dated within window w.
AddedWithin(w) == AddedDates \subseteq w.start..w.end

\* C29: every session generated and every reservation created by a renewal or
\* an enrollment is dated within the coverage window [window_start, window_end]
\* the run computed; no reservation is created on a session that already
\* existed and is dated after window_end.
CoverageWindowContainment ==
  [][/\ (lastOp'.op = "renew_subscription" /\ lastOp'.args[2] /\ RenewalRequest[2] # NoTemplate)
          => AddedWithin(EffectsWindow(RenewalGroup, Len(subs) + 1))
     /\ (lastOp'.op = "create_member_enrollment" /\ lastOp'.args[3] # NoTemplate)
          => AddedWithin(EffectsWindow(EnrollmentGroup, Len(subs) + 1))]_vars

----------------------------------------------------------------------------
(* The session generator service (services/session_generator.py) and its     *)
(* mutations (graphql/class_sessions/mutations.py)                           *)

\* maintain_session_window: generate_sessions_from_template for every active
\* template (here in id order; the order only decides the ids of the new
\* sessions).  r = [tx, committed, created, raised]; each generation that
\* inserted a session commits the transaction, an exception ends the loop.
RECURSIVE maintain_session_window(_, _, _, _)
maintain_session_window(r, templates, start_date, end_date) ==
  IF templates = <<>> \/ r.raised THEN r
  ELSE LET gen == generate_sessions_from_template(r.tx, Head(templates), start_date, end_date)
           r2 == IF gen.raised THEN [r EXCEPT !.raised = TRUE]
                 ELSE IF gen.created = <<>> THEN r
                 ELSE [tx |-> gen.tx, committed |-> gen.tx,
                       created |-> r.created + Len(gen.created), raised |-> FALSE]
       IN maintain_session_window(r2, Tail(templates), start_date, end_date)

\* generate_future_sessions from day today: one template, or every active one.
generate_future_sessions(tx, template_id, weeks_ahead, today) ==
  maintain_session_window([tx |-> tx, committed |-> tx, created |-> 0, raised |-> FALSE],
                          IF template_id # NoTemplate THEN <<template_id>>
                          ELSE SeqOfSet({t \in Templates : ClassTemplate[t].is_active}),
                          today, today + 7 * weeks_ahead)

\* The result of a service call: committed is the store as of the last commit,
\* reported the created_reservations of the returned statistics, raised
\* whether the call ended with an exception.
ServiceResult(gen, reported) ==
  [committed |-> gen.committed, reported |-> reported, raised |-> gen.raised]

MaterializedAfter(gen, window_weeks, today, template_id, order) ==
  ServiceResult(gen,
                IF gen.raised THEN 0
                ELSE materialize_standing_bookings(gen.tx, window_weeks, today, NoId,
                                                   template_id, order).stats.created)

maintain_weekly_schedule(tx, weeks_ahead, today, order) ==
  MaterializedAfter(generate_future_sessions(tx, NoTemplate, weeks_ahead, today),
                    weeks_ahead, today, NoTemplate, order)

GeneratedAndMaterialized(gen, weeks_ahead, auto_materialize, today, template_id, order) ==
  IF auto_materialize /\ gen.created > 0
  THEN MaterializedAfter(gen, weeks_ahead, today, template_id, order)
  ELSE ServiceResult(gen, 0)

generate_and_materialize(tx, template_id, weeks_ahead, auto_materialize, today, order) ==
  GeneratedAndMaterialized(generate_future_sessions(tx, template_id, weeks_ahead, today),
                           weeks_ahead, auto_materialize, today, template_id, order)

\* The generations of emergency_session_generation, date by date.
RECURSIVE emergency_sessions(_, _, _)
emergency_sessions(r, template_id, specific_dates) ==
  IF specific_dates = <<>> \/ r.raised THEN r
  ELSE emergency_sessions(
         maintain_session_window(r, <<template_id>>, Head(specific_dates), Head(specific_dates)),
         template_id, Tail(specific_dates))

DefaultWindowWeeks == 8

EmergencyMaterialized(gen, today, template_id, order) ==
  IF gen.created > 0 THEN MaterializedAfter(gen, DefaultWindowWeeks, today, template_id, order)
  ELSE ServiceResult(gen, 0)

emergency_session_generation(tx, template_id, specific_dates, today, order) ==
  EmergencyMaterialized(
    emergency_sessions([tx |-> tx, committed |-> tx, created |-> 0, raised |-> FALSE],
                       template_id, specific_dates),
    today, template_id, order)

\* The end of a service mutation: it returns without a commit, the session is
\* closed and the store is the one of the transaction's last commit.
ServiceSettled(r, name, args) ==
  /\ Commit(r.committed)
  /\ Done(name, args \o <<r.reported>>, ~r.raised)
  /\ UNCHANGED inflight

\* The standing bookings a service's materialization selects after generation.
ServiceSelection(template_id, window_weeks, today) ==
  SelectedStandingBookings(standing, today, today + 7 * window_weeks, NoId, template_id)

\* The maintainWeeklySchedule mutation.
MaintainWeeklySchedule(weeks_ahead, today) ==
  /\ Served
  /\ \E order \in Orders(ServiceSelection(NoTemplate, weeks_ahead, today)) :
       ServiceSettled(maintain_weekly_schedule(DB, weeks_ahead, today, order),
                      "maintain_weekly_schedule", <<weeks_ahead, today>>)

\* The generateAndMaterialize mutation.
GenerateAndMaterialize(template_id, weeks_ahead, auto_materialize, today) ==
  /\ Served
  /\ \E order \in Orders(ServiceSelection(template_id, weeks_ahead, today)) :
       ServiceSettled(generate_and_materialize(DB, template_id, weeks_ahead, auto_materialize,
                                               today, order),
                      "generate_and_materialize", <<weeks_ahead, today>>)

\* The emergencySessionGeneration mutation.
EmergencySessionGeneration(template_id, specific_dates, today) ==
  /\ Served
  /\ \E order \in Orders(ServiceSelection(template_id, DefaultWindowWeeks, today)) :
       ServiceSettled(emergency_session_generation(DB, template_id, specific_dates, today, order),
                      "emergency_session_generation", <<DefaultWindowWeeks, today>>)

----------------------------------------------------------------------------
(* Specification of schedule maintenance: standing bookings, then the        *)
(* service mutations on day 0.                                               *)

InitMaintenance ==
  /\ subs = InitialSubscriptions
  /\ payments = <<>>
  /\ standing = <<>>
  /\ exceptions = <<>>
  /\ sessions = <<>>
  /\ reservations = <<>>
  /\ inflight = {}
  /\ stats = NoStats
  /\ prevStats = NoStats
  /\ lastOp = Op("init", <<>>, TRUE)
  /\ budget = MaxMaintenanceRequests

NextMaintenance ==
  \/ \E p \in Persons, t \in {1, 2}, seat \in {NoSeat} \cup Seats :
       CreateStandingBooking(p, p, t, 0, MaxDay, seat)
  \/ MaintainWeeklySchedule(1, 0)
  \/ \E t \in {NoTemplate, 1}, auto \in BOOLEAN : GenerateAndMaterialize(t, 1, auto, 0)
  \/ \E dates \in {<<1>>, <<1, 8>>} : EmergencySessionGeneration(1, dates, 0)

SpecMaintenance == InitMaintenance /\ [][NextMaintenance]_vars

\* C30: after maintain_weekly_schedule, generate_and_materialize or
\* emergency_session_generation completes successfully, the reservations it
\* reports in created_reservations are committed: the store holds that many
\* more reservations than before the request.
MaintenanceDurability ==
  [][(/\ lastOp'.op \in {"maintain_weekly_schedule", "generate_and_materialize",
                         "emergency_session_generation"}
      /\ lastOp'.ok)
     => Len(reservations') = Len(reservations) + lastOp'.args[3]]_vars

\* C31: after any sequence of standing booking creations, status updates and
\* renewals, every standing booking with status active references a
\* subscription that has status active and belongs to the same person.
ActiveBookingHasActiveSubscription ==
  \A i \in DOMAIN standing :
    standing[i].status = "active" =>
      /\ standing[i].sub \in DOMAIN subs
      /\ subs[standing[i].sub].status = "active"
      /\ subs[standing[i].sub].person = standing[i].person

\* C32: under interleaved materialization runs, a session whose active
\* reservations are all seatless never holds more active reservations than
\* its capacity, also when two attempts for different persons both read the
\* last free spot before either inserts.
CapacityUnderInterleaving ==
  \A i \in DOMAIN sessions :
    (\A r \in DOMAIN reservations :
       (reservations[r].session = i /\ reservations[r].status \in ActiveStatuses)
         => reservations[r].seat = NoSeat)
    => ActiveCount(reservations, i) <= sessions[i].capacity

----------------------------------------------------------------------------
(* Specification of materialization over sessions of every status: sessions  *)
(* are generated and created by hand, canceled and completed, standing       *)
(* bookings get skip and reschedule exceptions, and the batch runs.          *)

InitStatus ==
  /\ subs = InitialSubscriptions
  /\ payments = <<>>
  /\ standing = <<>>
  /\ exceptions = <<>>
  /\ sessions = <<>>
  /\ reservations = <<>>
  /\ inflight = {}
  /\ stats = NoStats
  /\ prevStats = NoStats
  /\ lastOp = Op("init", <<>>, TRUE)
  /\ budget = MaxStatusRequests

NextStatus ==
  \/ GenerateSessionsFromTemplate(1, 0, MaxDay)
  \/ CreateClassSession(1, 1, 1)
  \/ \E p \in Persons : CreateStandingBooking(p, p, 1, 0, MaxDay, NoSeat)
  \/ \E i \in DOMAIN sessions, st \in {"scheduled", "canceled", "completed"} :
       UpdateSessionStatus(i, st)
  \/ \E i \in DOMAIN standing, n, d \in DOMAIN sessions :
       \/ CreateStandingBookingException(i, sessions[d].date, "skip", NoSession)
       \/ CreateStandingBookingException(i, sessions[d].date, "reschedule", n)
  \/ MaterializeStandingBookings(2, 0)

SpecStatus == InitStatus /\ [][NextStatus]_vars

\* C33: every reservation that materialization creates (source standing or
\* override: template sessions, sessions targeted by a reschedule exception,
\* per-session materialization) is on a session with status scheduled, never
\* on a canceled or completed one.
MaterializationOnScheduledOnly ==
  [][\A r \in DOMAIN reservations' :
       (r > Len(reservations) /\ reservations'[r].source \in {"standing", "override"})
         => sessions'[reservations'[r].session].status = "scheduled"]_vars

----------------------------------------------------------------------------
(* The deleteMember mutation (membersCrud.py) and the reservation lifecycle. *)
(* A row's id is its position in its table: a deletion closes the gaps and   *)
(* rewrites the references, so that every surviving row refers to the rows   *)
(* it referred to before.                                                    *)

Renumber(keep, i) == Cardinality({j \in keep : j <= i})

Remaining(rows, keep) ==
  [k \in 1..Cardinality(keep) |-> rows[CHOOSE i \in keep : Renumber(keep, i) = k]]

\* The DELETE statements of delete_member_and_related, in one transaction.
\* standing_bookings.subscription_id and
\* standing_booking_exceptions.standing_booking_id are ON DELETE CASCADE;
\* payments.subscription_id is not, and a surviving payment on a deleted
\* subscription fails the statement: the handler rolls back.
delete_member_and_related(tx, member_id) ==
  LET sub_keep == {i \in DOMAIN tx.subs : tx.subs[i].person # member_id}
      sb_keep == {i \in DOMAIN tx.sbs :
                    tx.sbs[i].person # member_id /\ tx.sbs[i].sub \in sub_keep}
      exc_keep == {i \in DOMAIN tx.excs : tx.excs[i].sb \in sb_keep}
      pay_keep == {i \in DOMAIN tx.pays : tx.pays[i].person # member_id}
      res_keep == {i \in DOMAIN tx.res : tx.res[i].person # member_id}
      kept_sbs == Remaining(tx.sbs, sb_keep)
      kept_excs == Remaining(tx.excs, exc_keep)
      kept_pays == Remaining(tx.pays, pay_keep)
  IN IF \E i \in pay_keep : tx.pays[i].sub \notin sub_keep
     THEN [tx EXCEPT !.broken = TRUE]
     ELSE [tx EXCEPT
             !.excs = [k \in DOMAIN kept_excs |->
                         [kept_excs[k] EXCEPT !.sb = Renumber(sb_keep, @)]],
             !.res = Remaining(tx.res, res_keep),
             !.sbs = [k \in DOMAIN kept_sbs |->
                        [kept_sbs[k] EXCEPT !.sub = Renumber(sub_keep, @)]],
             !.pays = [k \in DOMAIN kept_pays |->
                         [kept_pays[k] EXCEPT !.sub = Renumber(sub_keep, @)]],
             !.subs = Remaining(tx.subs, sub_keep)]

\* A person with the member role who was not deleted before is, in the model,
\* one who has rows.
DeleteMember(member_id) ==
  /\ Served
  /\ ~NewPerson(member_id)
  /\ LET tx == delete_member_and_related(DB, member_id)
     IN /\ CommitOrRollback(tx)
        /\ Done("delete_member", <<member_id>>, ~tx.broken)
        /\ UNCHANGED inflight

InitLifecycle ==
  /\ subs = InitialSubscriptions
  /\ payments = <<>>
  /\ standing = <<>>
  /\ exceptions = <<>>
  /\ sessions = <<>>
  /\ reservations = <<>>
  /\ inflight = {}
  /\ stats = NoStats
  /\ prevStats = NoStats
  /\ lastOp = Op("init", <<>>, TRUE)
  /\ budget = MaxLifecycleRequests

NextLifecycle ==
  \/ GenerateSessionsFromTemplate(1, 0, MaxDay)
  \/ \E i \in DOMAIN sessions, p \in Persons : CreateReservation(i, p, NoSeat)
  \/ \E r \in DOMAIN reservations :
       \/ CancelReservation(r)
       \/ CheckInReservation(r)
       \/ CheckoutReservation(r)
  \/ \E i \in DOMAIN sessions, c \in BOOLEAN : CancelSession(i, c)
  \/ \E p \in Persons : DeleteMember(p)

SpecLifecycle == InitLifecycle /\ [][NextLifecycle]_vars

\* A reservation's step from row a to row b that the lifecycle allows: no
\* change, a cancellation from reserved or waitlisted, a check-in from
\* reserved, or a check-out that leaves the status checked_in.
LifecycleStep(a, b) ==
  /\ a.session = b.session /\ a.person = b.person
  /\ a.seat = b.seat /\ a.source = b.source
  /\ \/ a.status = b.status /\ a.checked_out = b.checked_out
     \/ a.status \in {"reserved", "waitlisted"} /\ b.status = "canceled"
          /\ a.checked_out = b.checked_out
     \/ a.status = "reserved" /\ b.status = "checked_in"
          /\ a.checked_out = b.checked_out
     \/ a.status = "checked_in" /\ b.status = "checked_in" /\ b.checked_out

\* C34: a reservation is canceled only from reserved or waitlisted, checked in
\* only from reserved and checked out only from checked_in with its status
\* kept; every other transition leaves it unchanged, and no operation deletes
\* a reservation row: every row of a state is still a row of the next one.
ReservationLifecycle ==
  [][\A r \in DOMAIN reservations :
       \E q \in DOMAIN reservations' :
         LifecycleStep(reservations[r], reservations'[q])]_vars

\* C35: once cancel_session(session_id, cancel_reservations = TRUE) has
\* returned or raised, the session has status canceled only if none of its
\* reservations is still reserved or waitlisted: the session and its
\* reservations are canceled together or not at all.
SessionCancellationAtomic ==
  [][(lastOp'.op = "cancel_session" /\ lastOp'.args[2]) =>
       (sessions'[lastOp'.args[1]].status = "canceled" =>
          \A r \in DOMAIN reservations' :
            reservations'[r].session = lastOp'.args[1] =>
              reservations'[r].status \notin {"reserved", "waitlisted"})]_vars

\* The standing bookings a step adds for person p with status active.
NewActiveBookings(p) ==
  {i \in DOMAIN standing' :
     i > Len(standing) /\ standing'[i].person = p /\ standing'[i].status = "active"}

\* C36: an enrollment called with a template_id that completes successfully
\* has created at least one active standing booking for the new member; when
\* no standing booking is created the enrollment fails and no subscription or
\* payment of it persists.
EnrollmentCreatesStandingBooking ==
  [][(lastOp'.op = "create_member_enrollment" /\ lastOp'.args[3] # NoTemplate) =>
       /\ lastOp'.ok => NewActiveBookings(lastOp'.args[1]) # {}
       /\ NewActiveBookings(lastOp'.args[1]) = {} =>
            (~lastOp'.ok /\ subs' = subs /\ payments' = payments)]_vars

====
